---- MODULE Spec2Model ----
(***************************************************************************)
(* Model of the scheduling core of the sim crate:                          *)
(*   - SparseSet        (src/src/collections.rs)                            *)
(*   - ConflictGraph    (src/src/conflictgraph.rs)                          *)
(*   - World, systems   (src/src/world.rs, src/src/systems.rs)              *)
(*   - type handles     (src/src/identity.rs)                               *)
(* Rust vectors are TLA+ sequences; a Rust index i is position i + 1.       *)
(* Option<T> is a sequence of length at most one: None is << >> and         *)
(* Some(v) is <<v>>.                                                        *)
(***************************************************************************)
EXTENDS Integers, Sequences, FiniteSets, TLC

\* ------------------------------------------------------------- bounds
\* Width of usize in bits, scaled down from 64.
UsizeBits == 5
\* insert_with and remove are called with keys 0..MaxKey.
MaxKey == 2
\* The items stored in the set are 1..NItems.
NItems == 2

USIZE_MAX == 2^UsizeBits - 1
ISIZE_MAX == 2^(UsizeBits - 1) - 1
EMPTY_KEY == USIZE_MAX

Keys == 0..MaxKey
Items == 1..NItems

None == << >>
Some(v) == <<v>>
Max(a, b) == IF a >= b THEN a ELSE b

\* ---------------------------------------------------------- variables
VARIABLES
    set,      \* the SparseSet: [sparse, dense, data]
    pc,       \* "ready", or "hung" / "panic" once a call never returns
    last,     \* the last completed call: its arguments, result and growth steps
    model,    \* reference map run side by side: key -> Option<item>
    cmp,      \* the conflict predicate: <<a, b>> \in cmp iff a.conflict_cmp(b)
    graph,    \* the ConflictGraph: [nodes], a SparseSet of InnerNode
    gpc,      \* position inside ConflictGraph::cliques
    color_st, \* locals of color(): [used_colors, uncolored_count, passes]
    result,   \* what cliques() returned
    inserted, \* the payloads handed to ConflictGraph::insert, in order
    overflow_checks, \* the build: TRUE panics on usize overflow, FALSE wraps
    reserved, \* what the last call of reserve returned: [res, value]
    units,    \* the units of work (test nodes, systems): [writes, reads] each
    world,    \* the World: [systems, system_tree, command_queue]
    wpc,      \* "idle", or "resolving" inside resolve_system_tree
    resolved, \* the last call on the World: [op, res, prev]
    TYPEID_INIT_ONCE, \* the Once: "incomplete", "running" or "complete"
    TYPEID_MAP,       \* Option of the RwLock'ed map: [writers, poisoned, map]
    TYPEID_COUNTER,   \* the next handle
    threads,  \* per thread, its call of type_id: [pc, tid, iid]
    returned, \* the <<type, handle>> pairs calls of type_id have returned
    assigned, \* the types put into the map, in the order of the inserts
    running,  \* the call of World::run: [pc, i, j, dispatched, executed, result]
    builder,  \* the QueryBuilder: [filter_set, components, cached]
    bpc,      \* the last call on the builder
    query,    \* Option of the Query that make() returned
    iter,     \* the QueryIter and the calls of next() on it
    view,     \* a Ref<T> in the hands of a system, and the views taken of it
    group     \* a list of systems and the SystemGroup built from it

setvars == <<set, pc, last, model>>
graphvars == <<cmp, graph, gpc, color_st, result, inserted>>
capvars == <<overflow_checks, reserved>>
worldvars == <<world, wpc, resolved>>
typevars == <<TYPEID_INIT_ONCE, TYPEID_MAP, TYPEID_COUNTER, threads, returned,
              assigned>>
runvars == <<running>>
queryvars == <<builder, bpc, query>>
itervars == <<iter>>
refvars == <<view>>
groupvars == <<group>>
latevars == <<runvars, queryvars, itervars, refvars, groupvars>>
extvars == <<capvars, units, worldvars, typevars, latevars>>
vars == <<set, pc, last, model, cmp, graph, gpc, color_st, result, inserted,
          extvars>>

\* ---------------------------------------------------------- SparseSet
new == [sparse |-> << >>, dense |-> << >>, data |-> << >>]

capacity(s) == Len(s.sparse)

len(s) == Len(s.dense)

is_empty(s) == len(s) = 0

get_idx(s, key) ==
    IF key >= capacity(s) THEN None
    ELSE LET idx == s.sparse[key + 1] IN
         IF idx < len(s) /\ s.dense[idx + 1] = key THEN Some(idx) ELSE None

contains(s, key) == get_idx(s, key) # None

get(s, key) ==
    LET i == get_idx(s, key) IN
    IF i # None THEN Some(s.data[i[1] + 1]) ELSE None

\* Vec::resize(new_len, value): extends with value, or truncates
resize(v, new_len, value) ==
    [i \in 1..new_len |-> IF i <= Len(v) THEN v[i] ELSE value]

\* Vec::truncate(len): no effect when len is not below the current length
truncate(v, n) == IF n < Len(v) THEN SubSeq(v, 1, n) ELSE v

\* The closure reserve runs under catch_unwind: sparse.resize, then
\* dense.reserve and data.reserve. A Vec cannot hold more than isize::MAX
\* bytes, so dense.reserve panics when len + additional exceeds that; fail is
\* any other allocation panic the allocator raises at that point.
reserve_closure(s, additional, new_capacity, fail) ==
    [set |-> [s EXCEPT !.sparse = resize(s.sparse, new_capacity, EMPTY_KEY)],
     ok  |-> ~(fail \/ len(s) + additional > ISIZE_MAX)]

\* reserve. The sum additional + capacity() is a usize sum: with overflow
\* checks it panics when it leaves the word, without them it wraps. On a
\* caught panic the code truncates sparse to its old length.
reserve_in(s, additional, checks, fail) ==
    LET sum == additional + capacity(s)
        new_capacity == sum % (USIZE_MAX + 1)
    IN IF checks /\ sum > USIZE_MAX
       THEN [set |-> s, res |-> "Panic", value |-> 0]
       ELSE IF new_capacity < ISIZE_MAX
       THEN LET c == reserve_closure(s, additional, new_capacity, fail) IN
            IF c.ok
            THEN [set |-> c.set, res |-> "Ok", value |-> new_capacity]
            ELSE [set |-> [c.set EXCEPT
                             !.sparse = truncate(c.set.sparse, capacity(s))],
                  res |-> "AllocError", value |-> 0]
       ELSE [set |-> s, res |-> "CapacityOverflow", value |-> 0]

\* reserve when the allocator does not fail
reserve(s, additional) == reserve_in(s, additional, FALSE, FALSE)

\* The growth loop of insert_with. caps records the capacity before the loop
\* and after every reserve call. The result of reserve is discarded by the
\* code, so a reserve that leaves the capacity as it was repeats forever.
RECURSIVE insert_with_grow(_, _, _)
insert_with_grow(s, key, caps) ==
    IF key >= capacity(s)
    THEN LET r == reserve(s, Max(1, len(s))) IN
         IF capacity(r.set) = capacity(s)
         THEN [set |-> s, hung |-> TRUE, caps |-> caps]
         ELSE insert_with_grow(r.set, key, Append(caps, capacity(r.set)))
    ELSE [set |-> s, hung |-> FALSE, caps |-> caps]

\* An insert_with that appends without looking for a stored item.
insert_with_store_Append(t, key, item) ==
    [set |-> [sparse |-> [t.sparse EXCEPT ![key + 1] = len(t)],
              dense  |-> Append(t.dense, key),
              data   |-> Append(t.data, item)],
     ret |-> None]

\* An insert_with that hands back the new item instead of the stored one.
insert_with_store_RetNew(t, key, item) ==
    LET i == get_idx(t, key) IN
    IF i # None
    THEN [set |-> [t EXCEPT !.data[i[1] + 1] = item], ret |-> Some(item)]
    ELSE [set |-> [sparse |-> [t.sparse EXCEPT ![key + 1] = len(t)],
                   dense  |-> Append(t.dense, key),
                   data   |-> Append(t.data, item)],
          ret |-> None]

\* The body of insert_with after the growth loop.
insert_with_store(t, key, item) ==
    LET i == get_idx(t, key) IN
    IF i # None
    THEN [set |-> [t EXCEPT !.data[i[1] + 1] = item],
          ret |-> Some(t.data[i[1] + 1])]
    ELSE [set |-> [sparse |-> [t.sparse EXCEPT ![key + 1] = len(t)],
                   dense  |-> Append(t.dense, key),
                   data   |-> Append(t.data, item)],
          ret |-> None]

insert_with(s, key, item) ==
    LET g == insert_with_grow(s, key, <<capacity(s)>>) IN
    IF g.hung
    THEN [set |-> g.set, ret |-> None, hung |-> TRUE, caps |-> g.caps]
    ELSE LET r == insert_with_store(g.set, key, item) IN
         [set |-> r.set, ret |-> r.ret, hung |-> FALSE, caps |-> g.caps]

\* Vec::swap_remove(idx): the last element takes the place of element idx.
swap_remove(v, idx) ==
    LET n == Len(v)
        front == SubSeq(v, 1, n - 1)
    IN IF idx + 1 = n THEN front ELSE [front EXCEPT ![idx + 1] = v[n]]

\* A remove that forgets to re-link the swapped key.
remove_relink_Skipped(sparse, swap, idx, newlen) == sparse

\* remove, lines 93-95: re-link the key that was swapped into slot idx.
remove_relink(sparse, swap, idx, newlen) ==
    IF newlen > 0 THEN [sparse EXCEPT ![swap + 1] = idx] ELSE sparse

\* A remove that leaves the removed key's sparse entry as it was.
remove_mark_Skipped(sparse, key) == sparse

\* remove, line 98: mark the removed key's sparse entry.
remove_mark(sparse, key) == [sparse EXCEPT ![key + 1] = EMPTY_KEY]

\* A swap-remove that hands back the last item, the one swapped into idx.
removed_item_Last(data, idx) == data[Len(data)]

\* remove, line 91: the item data.swap_remove(idx) hands back.
removed_item(data, idx) == data[idx + 1]

\* remove, lines 90-100: the branch taken with the slot idx of a live key.
remove_at(s, key, idx) ==
    IF idx >= Len(s.dense) \/ idx >= Len(s.data)
    THEN [set |-> s, ret |-> None, panic |-> TRUE]
    ELSE LET swap == s.dense[Len(s.dense)]
             dense == swap_remove(s.dense, idx)
             data == swap_remove(s.data, idx)
             sparse == remove_mark(
                         remove_relink(s.sparse, swap, idx, Len(dense)), key)
         IN [set |-> [sparse |-> sparse, dense |-> dense, data |-> data],
             ret |-> Some(removed_item(s.data, idx)), panic |-> FALSE]

\* A remove that tests only the range of the key, not whether it is live.
remove_Unchecked(s, key) ==
    IF key < capacity(s)
    THEN remove_at(s, key, s.sparse[key + 1])
    ELSE [set |-> s, ret |-> None, panic |-> FALSE]

remove(s, key) ==
    LET i == get_idx(s, key) IN
    IF i # None
    THEN remove_at(s, key, i[1])
    ELSE [set |-> s, ret |-> None, panic |-> FALSE]

\* The indices of sparse that hold the EMPTY marker.
EmptySlots(s) == {i \in 0..(capacity(s) - 1) : s.sparse[i + 1] = EMPTY_KEY}

MinOf(S) == CHOOSE x \in S : \A y \in S : x <= y

\* A next_key that hands out the number of live entries as the key.
next_key_Len(s) == len(s)

next_key(s) ==
    IF is_empty(s) THEN capacity(s)
    ELSE IF EmptySlots(s) # {} THEN MinOf(EmptySlots(s))
    ELSE capacity(s)

insert(s, item) ==
    LET key == next_key(s)
        r == insert_with(s, key, item)
    IN [set |-> r.set, key |-> key, hung |-> r.hung, caps |-> r.caps,
        panic |-> (~r.hung /\ r.ret # None)]

\* clear, lines 187-189: only the dense vector is emptied.
clear(s) == [s EXCEPT !.dense = << >>]

\* --------------------------------------------- SparseSet state machine
\* prev: for a remove(k) that directly follows insert_with(k, v), Some(v).
NoCall == [op |-> "new", key |-> 0, item |-> 0, ret |-> None, caps |-> << >>,
           prev |-> None]

NoReserve == [res |-> "Ok", value |-> 0]

\* The state of the parts of the program a specification does not run.
CapIdle ==
    /\ overflow_checks = FALSE
    /\ reserved = NoReserve

\* World::new; prev: the tree before a resolve that directly follows a resolve
World_new == [systems |-> new, system_tree |-> << >>, command_queue |-> << >>]

NoWorldCall == [op |-> "new", res |-> "Ok", prev |-> None]

WorldIdle ==
    /\ world = World_new
    /\ wpc = "idle"
    /\ resolved = NoWorldCall

\* Threads that request type handles, and the types they request.
NThreads == 2
NTypes == 2
Threads == 1..NThreads
TypeIds == 1..NTypes

NoCallOfTypeId == [pc |-> "idle", tid |-> 0, iid |-> 0]

\* The statics of identity.rs before any call of type_id.
TypeIdIdle ==
    /\ TYPEID_INIT_ONCE = "incomplete"
    /\ TYPEID_MAP = None
    /\ TYPEID_COUNTER = 0
    /\ threads = [t \in Threads |-> NoCallOfTypeId]
    /\ returned = {}
    /\ assigned = << >>

\* World::run is not running.
NoRun == [pc |-> "idle", i |-> 0, j |-> 0, dispatched |-> << >>,
          executed |-> << >>, result |-> None]

RunIdle == running = NoRun

\* Query::new()
Query_new == [filter_set |-> << >>, components |-> << >>, cached |-> None]

QueryIdle == builder = Query_new /\ bpc = "new" /\ query = None

NoIter == [pc |-> "none"]

IterIdle == iter = NoIter

NoView == [pc |-> "none"]

RefIdle == view = NoView

\* SystemGroup::default()
SystemGroup_default ==
    [systems |-> << >>, group_mutable |-> << >>, group_immutable |-> << >>]

NoGroup == [pc |-> "none", systems |-> << >>, out |-> SystemGroup_default]

GroupIdle == group = NoGroup

LateIdle == RunIdle /\ QueryIdle /\ IterIdle /\ RefIdle /\ GroupIdle

ExtIdle ==
    /\ CapIdle
    /\ units = << >>
    /\ WorldIdle
    /\ TypeIdIdle
    /\ LateIdle

SetInit ==
    /\ set = new
    /\ pc = "ready"
    /\ last = NoCall
    /\ model = [k \in Keys |-> None]

InsertWith(key, item) ==
    /\ pc = "ready"
    /\ UNCHANGED <<graphvars, extvars>>
    /\ LET r == insert_with(set, key, item) IN
       /\ set' = r.set
       /\ pc' = IF r.hung THEN "hung" ELSE "ready"
       /\ last' = [op |-> "insert_with", key |-> key, item |-> item,
                   ret |-> r.ret, caps |-> r.caps, prev |-> None]
       /\ model' = IF r.hung \/ key \notin Keys THEN model
                   ELSE [model EXCEPT ![key] = Some(item)]

\* The guard keeps the keys handed out by next_key within Keys.
Insert(item) ==
    /\ pc = "ready"
    /\ UNCHANGED <<graphvars, extvars>>
    /\ next_key(set) <= MaxKey
    /\ LET r == insert(set, item) IN
       /\ set' = r.set
       /\ pc' = IF r.hung THEN "hung" ELSE IF r.panic THEN "panic" ELSE "ready"
       /\ last' = [op |-> "insert", key |-> r.key, item |-> item,
                   ret |-> None, caps |-> r.caps, prev |-> None]
       /\ model' = IF r.hung THEN model ELSE [model EXCEPT ![r.key] = Some(item)]

Remove(key) ==
    /\ pc = "ready"
    /\ UNCHANGED <<graphvars, extvars>>
    /\ LET r == remove(set, key) IN
       /\ set' = r.set
       /\ pc' = IF r.panic THEN "panic" ELSE "ready"
       /\ last' = [op |-> "remove", key |-> key, item |-> 0,
                   ret |-> r.ret, caps |-> << >>,
                   prev |-> IF last.op = "insert_with" /\ last.key = key
                            THEN Some(last.item) ELSE None]
       /\ model' = IF key \in Keys /\ ~r.panic
                   THEN [model EXCEPT ![key] = None] ELSE model

\* Items left in data by earlier calls of clear when clear is called again:
\* at most MaxStale.
MaxStale == 2

Clear ==
    /\ pc = "ready"
    /\ UNCHANGED <<graphvars, extvars>>
    /\ Len(set.data) <= MaxStale
    /\ set' = clear(set)
    /\ pc' = "ready"
    /\ last' = [op |-> "clear", key |-> 0, item |-> 0, ret |-> None,
                caps |-> << >>, prev |-> None]
    /\ model' = [k \in Keys |-> None]

\* ------------------------------------------------------ ConflictGraph
\* Nodes inserted into one graph: at most MaxNodes.
MaxNodes == 3

UNCOLORED == USIZE_MAX

\* A payload is identified by its insertion rank 0, 1, ...; the predicate of
\* the ConflictCmp trait is any relation between distinct payloads.
Payloads == 0..(MaxNodes - 1)
PayloadPairs == {p \in Payloads \X Payloads : p[1] # p[2]}

conflict_cmp(a, b) == <<a.udata, b.udata>> \in cmp

InnerNode_new(outer) == [udata |-> outer, edges |-> {}, color |-> 0]

graph_new == [nodes |-> new]

graph_insert(g, node) == [nodes |-> insert(g.nodes, InnerNode_new(node)).set]

\* KeyValueIter: the <<key, item>> pairs in dense order.
kv_pairs(s) ==
    LET n == IF Len(s.dense) <= Len(s.data) THEN Len(s.dense) ELSE Len(s.data)
    IN [i \in 1..n |-> <<s.dense[i], s.data[i]>>]

\* A rebuild that records only the edges towards later keys.
rebuild_edges_Forward(s, i) ==
    LET kv == kv_pairs(s) IN
    {kv[j][1] : j \in {j \in DOMAIN kv :
                        kv[j][1] > kv[i][1] /\ conflict_cmp(kv[i][2], kv[j][2])}}

rebuild_edges(s, i) ==
    LET kv == kv_pairs(s) IN
    {kv[j][1] : j \in {j \in DOMAIN kv :
                        kv[j][1] # kv[i][1] /\ conflict_cmp(kv[i][2], kv[j][2])}}

rebuild(g) ==
    [nodes |-> [g.nodes EXCEPT !.data =
        [i \in DOMAIN g.nodes.data |->
            IF i \in DOMAIN kv_pairs(g.nodes)
            THEN [g.nodes.data[i] EXCEPT !.edges = rebuild_edges(g.nodes, i)]
            ELSE [g.nodes.data[i] EXCEPT !.edges = {}]]]]

\* color(), lines 142-148: every node is set to UNCOLORED.
color_clear(g) ==
    [nodes |-> [g.nodes EXCEPT !.data =
        [i \in DOMAIN g.nodes.data |-> [g.nodes.data[i] EXCEPT !.color = UNCOLORED]]]]

Candidate_default ==
    [graph_key |-> 0, uncolored_adjacent |-> 0, forbidden_len |-> 0,
     forbidden_colors |-> {}, panic |-> FALSE]

\* A test that forgets the colors of the colored neighbours.
test_candidate_NoForbidden(s, key, node, uncolored_count) ==
    LET missing == {e \in node.edges : get(s, e) = None}
        adj(e) == get(s, e)[1].color
        unc == {e \in node.edges \ missing : adj(e) = UNCOLORED}
        col == {e \in node.edges \ missing : adj(e) # UNCOLORED}
    IN [graph_key |-> key,
        uncolored_adjacent |-> Cardinality(unc),
        forbidden_len |-> Cardinality(col),
        forbidden_colors |-> {},
        panic |-> (missing # {} \/ (unc # {} /\ uncolored_count = 1))]

\* color(), lines 158-169. forbidden_colors is a Vec with one entry per colored
\* neighbour: its length and its members are all the code reads.
test_candidate(s, key, node, uncolored_count) ==
    LET missing == {e \in node.edges : get(s, e) = None}
        adj(e) == get(s, e)[1].color
        unc == {e \in node.edges \ missing : adj(e) = UNCOLORED}
        col == {e \in node.edges \ missing : adj(e) # UNCOLORED}
    IN [graph_key |-> key,
        uncolored_adjacent |-> Cardinality(unc),
        forbidden_len |-> Cardinality(col),
        forbidden_colors |-> {adj(e) : e \in col},
        panic |-> (missing # {} \/ (unc # {} /\ uncolored_count = 1))]

\* color(), lines 154-195: the scan for the node to color in this pass.
RECURSIVE select_candidate(_, _, _, _)
select_candidate(s, uncolored_count, i, candidate) ==
    IF i > Len(kv_pairs(s)) THEN candidate
    ELSE LET key == kv_pairs(s)[i][1]
             node == kv_pairs(s)[i][2]
         IN IF node.color # UNCOLORED
            THEN select_candidate(s, uncolored_count, i + 1, candidate)
            ELSE LET test == test_candidate(s, key, node, uncolored_count) IN
                 IF test.panic THEN test
                 ELSE IF uncolored_count = 1 THEN test
                 ELSE IF node.edges = {} THEN test
                 ELSE IF test.forbidden_len > candidate.forbidden_len THEN test
                 ELSE IF /\ test.forbidden_len = candidate.forbidden_len
                         /\ test.uncolored_adjacent > candidate.uncolored_adjacent
                      THEN test
                 ELSE select_candidate(s, uncolored_count, i + 1, candidate)

\* A choice that opens a new color for every node.
choose_color_AlwaysNew(used_colors, forbidden_colors) ==
    [color |-> Len(used_colors),
     used_colors |-> Append(used_colors, Len(used_colors))]

\* A choice that takes the last used color that is not forbidden.
RECURSIVE choose_color_LastFree(_, _)
choose_color_LastFree(used_colors, forbidden_colors) ==
    LET free == {i \in DOMAIN used_colors : used_colors[i] \notin forbidden_colors}
    IN IF free # {}
       THEN [color |-> used_colors[CHOOSE i \in free : \A j \in free : j <= i],
             used_colors |-> used_colors]
       ELSE choose_color_LastFree(Append(used_colors, Len(used_colors)),
                                  forbidden_colors)

\* color(), lines 198-216: the first used color that is not forbidden; a new
\* color is pushed each time every used color is forbidden.
RECURSIVE choose_color(_, _)
choose_color(used_colors, forbidden_colors) ==
    LET free == {i \in DOMAIN used_colors : used_colors[i] \notin forbidden_colors}
    IN IF free # {}
       THEN [color |-> used_colors[MinOf(free)], used_colors |-> used_colors]
       ELSE choose_color(Append(used_colors, Len(used_colors)), forbidden_colors)

\* A pass that always colors the first node of data.
set_color_First(s, key, color) == [s EXCEPT !.data[1].color = color]

set_color(s, key, color) ==
    [s EXCEPT !.data[get_idx(s, key)[1] + 1].color = color]

\* One pass of the outer loop of color().
color_pass(g, st) ==
    LET candidate == select_candidate(g.nodes, st.uncolored_count, 1, Candidate_default)
        c == choose_color(st.used_colors, candidate.forbidden_colors)
    IN IF candidate.panic
       THEN [graph |-> g, st |-> st, err |-> "panic"]
       ELSE IF get(g.nodes, candidate.graph_key) = None
       THEN [graph |-> g,
             st |-> [st EXCEPT !.used_colors = c.used_colors, !.passes = @ + 1],
             err |-> "NodeDoesntExist"]
       ELSE [graph |-> [nodes |-> set_color(g.nodes, candidate.graph_key, c.color)],
             st |-> [used_colors |-> c.used_colors,
                     uncolored_count |-> st.uncolored_count - 1,
                     passes |-> st.passes + 1],
             err |-> "none"]

\* check(): the error of one ordered pair of positions of data, "none" if none.
check_pair(g, i, j) ==
    LET node == g.nodes.data[i]
        other == g.nodes.data[j]
    IN IF node.color = UNCOLORED \/ other.color = UNCOLORED THEN "UncoloredNode"
       ELSE IF conflict_cmp(node, other) /\ node.color = other.color
       THEN "UnresolvedConflict"
       ELSE "none"

\* A cliques() that does not run check().
check_Skipped(g) == "none"

\* check(): the first failing pair in iteration order decides the error.
check(g) ==
    LET n == Len(g.nodes.data)
        bad == {p \in (1..n) \X (1..n) : p[1] # p[2] /\ check_pair(g, p[1], p[2]) # "none"}
        first == CHOOSE p \in bad : \A q \in bad :
                    p[1] < q[1] \/ (p[1] = q[1] /\ p[2] <= q[2])
    IN IF bad = {} THEN "none" ELSE check_pair(g, first[1], first[2])

\* A grouping that overwrites the entry of a color instead of pushing to it.
RECURSIVE group_of_Overwrite(_, _, _)
group_of_Overwrite(data, color, i) ==
    IF i > Len(data) THEN << >>
    ELSE IF data[i].color = color /\ group_of_Overwrite(data, color, i + 1) = << >>
         THEN <<data[i].udata>>
         ELSE group_of_Overwrite(data, color, i + 1)

\* From<ConflictGraph>: the payloads of one color, in data order.
RECURSIVE group_of(_, _, _)
group_of(data, color, i) ==
    IF i > Len(data) THEN << >>
    ELSE IF data[i].color = color
         THEN <<data[i].udata>> \o group_of(data, color, i + 1)
         ELSE group_of(data, color, i + 1)

ColorsOf(g) == {g.nodes.data[i].color : i \in DOMAIN g.nodes.data}

\* The orders in which a HashMap may hand out its entries.
RECURSIVE Orders(_)
Orders(S) ==
    IF S = {} THEN {<< >>}
    ELSE UNION {{<<x>> \o o : o \in Orders(S \ {x})} : x \in S}

into(g, order) == [i \in DOMAIN order |-> group_of(g.nodes.data, order[i], 1)]

\* ----------------------------------------- ConflictGraph state machine
NoResult == [kind |-> "none", err |-> "none", groups |-> << >>]
Err(e) == [kind |-> "Err", err |-> e, groups |-> << >>]
Ok(groups) == [kind |-> "Ok", err |-> "none", groups |-> groups]

NoColoring == [used_colors |-> << >>, uncolored_count |-> 0, passes |-> 0]

GraphIdle ==
    /\ graph = graph_new
    /\ gpc = "open"
    /\ color_st = NoColoring
    /\ result = NoResult
    /\ inserted = << >>

Init ==
    /\ SetInit
    /\ cmp = {}
    /\ GraphIdle
    /\ ExtIdle

GraphInit ==
    /\ SetInit
    /\ cmp \in SUBSET PayloadPairs
    /\ GraphIdle
    /\ ExtIdle

Next ==
    \/ \E key \in Keys, item \in Items : InsertWith(key, item)
    \/ \E item \in Items : Insert(item)
    \/ \E key \in 0..(MaxKey + 1) : Remove(key)

Spec == Init /\ [][Next]_vars

\* The SparseSet with clear among its operations.
ClearNext ==
    \/ \E key \in Keys, item \in Items : InsertWith(key, item)
    \/ \E item \in Items : Insert(item)
    \/ \E key \in 0..(MaxKey + 1) : Remove(key)
    \/ Clear

SpecClear == Init /\ [][ClearNext]_vars

\* ConflictGraph::insert
GraphInsert ==
    /\ gpc = "open"
    /\ Len(inserted) < MaxNodes
    /\ graph' = graph_insert(graph, Len(inserted))
    /\ inserted' = Append(inserted, Len(inserted))
    /\ UNCHANGED <<cmp, gpc, color_st, result, setvars, extvars>>

\* cliques(): self.rebuild()
Rebuild ==
    /\ gpc = "open"
    /\ graph' = rebuild(graph)
    /\ gpc' = "rebuilt"
    /\ UNCHANGED <<cmp, color_st, result, inserted, setvars, extvars>>

\* cliques(): self.color(), up to its loop
ColorBegin ==
    /\ gpc = "rebuilt"
    /\ graph' = color_clear(graph)
    /\ color_st' = [used_colors |-> << >>, uncolored_count |-> len(graph.nodes),
                    passes |-> 0]
    /\ gpc' = "coloring"
    /\ UNCHANGED <<cmp, result, inserted, setvars, extvars>>

\* cliques(): one pass of the loop of color()
ColorPass ==
    /\ gpc = "coloring"
    /\ color_st.uncolored_count > 0
    /\ LET r == color_pass(graph, color_st) IN
       /\ graph' = r.graph
       /\ color_st' = r.st
       /\ gpc' = IF r.err = "none" THEN "coloring"
                 ELSE IF r.err = "panic" THEN "panic" ELSE "done"
       /\ result' = IF r.err \in {"none", "panic"} THEN result ELSE Err(r.err)
    /\ UNCHANGED <<cmp, inserted, setvars, extvars>>

\* cliques(): self.check()
Check ==
    /\ gpc = "coloring"
    /\ color_st.uncolored_count = 0
    /\ LET e == check(graph) IN
       /\ gpc' = IF e = "none" THEN "checked" ELSE "done"
       /\ result' = IF e = "none" THEN result ELSE Err(e)
    /\ UNCHANGED <<cmp, graph, color_st, inserted, setvars, extvars>>

\* cliques(): self.into()
Into ==
    /\ gpc = "checked"
    /\ \E order \in Orders(ColorsOf(graph)) : result' = Ok(into(graph, order))
    /\ gpc' = "done"
    /\ UNCHANGED <<cmp, graph, color_st, inserted, setvars, extvars>>

GraphNext ==
    \/ GraphInsert
    \/ Rebuild
    \/ ColorBegin
    \/ ColorPass
    \/ Check
    \/ Into

SpecGraph == GraphInit /\ [][GraphNext]_vars

\* ------------------------------------- SparseSet capacity state machine
\* Keys at the capacity limit, and the amounts reserve is called with: small
\* ones, the limit, and one that takes the sum out of the machine word.
BigKeys == {ISIZE_MAX - 2, ISIZE_MAX - 1, USIZE_MAX}
Additionals == {0, 1, ISIZE_MAX, USIZE_MAX}

\* reserve(additional); fail: the allocator fails inside the closure.
Reserve(additional, fail) ==
    /\ pc = "ready"
    /\ LET r == reserve_in(set, additional, overflow_checks, fail) IN
       /\ set' = r.set
       /\ pc' = IF r.res = "Panic" THEN "panic" ELSE "ready"
       /\ last' = [op |-> "reserve", key |-> additional, item |-> 0,
                   ret |-> None, caps |-> << >>, prev |-> None]
       /\ reserved' = [res |-> r.res, value |-> r.value]
    /\ UNCHANGED <<model, overflow_checks, graphvars, units, worldvars, typevars,
                   latevars>>

\* insert_with with any key. A reserve that has cut sparse short leaves
\* entries in dense that insert_with no longer finds, so dense can grow
\* without end: the guard bounds its length.
CapInsertWith(key, item) ==
    /\ len(set) <= MaxKey
    /\ InsertWith(key, item)

CapInit ==
    /\ SetInit
    /\ cmp = {}
    /\ GraphIdle
    /\ overflow_checks \in BOOLEAN
    /\ reserved = NoReserve
    /\ units = << >>
    /\ WorldIdle
    /\ TypeIdIdle
    /\ LateIdle

CapNext ==
    \/ \E key \in Keys \cup BigKeys, item \in Items : CapInsertWith(key, item)
    \/ \E additional \in Additionals, fail \in BOOLEAN : Reserve(additional, fail)

SpecCap == CapInit /\ [][CapNext]_vars

\* ------------------------------------- conflict predicate of the units
\* The component handles a unit of work names in its reads and writes.
NHandles == 2
Handles == 0..(NHandles - 1)

\* reads and writes are Vecs: lists, with repetitions, of at most 2 handles.
DepLists == UNION {[1..n -> Handles] : n \in 0..2}
Units == [writes : DepLists, reads : DepLists]

\* for y in ys { if x == y { return true } }
RECURSIVE any_equal(_, _)
any_equal(x, ys) ==
    IF ys = << >> THEN FALSE
    ELSE IF x = Head(ys) THEN TRUE
    ELSE any_equal(x, Tail(ys))

\* The first loop of conflict_cmp: a read of self against the writes of other.
RECURSIVE reads_loop(_, _)
reads_loop(reads, other) ==
    IF reads = << >> THEN FALSE
    ELSE IF any_equal(Head(reads), other.writes) THEN TRUE
    ELSE reads_loop(Tail(reads), other)

\* A second loop that leaves out the test of a write against the writes.
RECURSIVE writes_loop_NoWriteWrite(_, _)
writes_loop_NoWriteWrite(writes, other) ==
    IF writes = << >> THEN FALSE
    ELSE IF any_equal(Head(writes), other.reads) THEN TRUE
    ELSE writes_loop_NoWriteWrite(Tail(writes), other)

\* The second loop: a write of self against the reads, then the writes, of other.
RECURSIVE writes_loop(_, _)
writes_loop(writes, other) ==
    IF writes = << >> THEN FALSE
    ELSE IF any_equal(Head(writes), other.reads) THEN TRUE
    ELSE IF any_equal(Head(writes), other.writes) THEN TRUE
    ELSE writes_loop(Tail(writes), other)

\* impl ConflictCmp for TestNode
TestNode_conflict_cmp(self, other) ==
    IF reads_loop(self.reads, other) THEN TRUE
    ELSE writes_loop(self.writes, other)

\* impl ConflictCmp for &WorldSystem
WorldSystem_conflict_cmp(self, other) ==
    IF reads_loop(self.reads, other) THEN TRUE
    ELSE writes_loop(self.writes, other)

\* The predicate as a relation between the ranks 0, 1, ... of a list of units.
Ranks(us) == 0..(Len(us) - 1)

TestNode_cmp(us) ==
    {p \in Ranks(us) \X Ranks(us) :
        p[1] # p[2] /\ TestNode_conflict_cmp(us[p[1] + 1], us[p[2] + 1])}

WorldSystem_cmp(us) ==
    {p \in Ranks(us) \X Ranks(us) :
        p[1] # p[2] /\ WorldSystem_conflict_cmp(us[p[1] + 1], us[p[2] + 1])}

\* a.conflict_cmp(&b) and b.conflict_cmp(&a) of two test nodes
CompareNodes(a, b) ==
    /\ units = << >>
    /\ units' = <<a, b>>
    /\ cmp' = TestNode_cmp(<<a, b>>)
    /\ UNCHANGED <<graph, gpc, color_st, result, inserted, setvars, capvars, worldvars,
                   typevars, latevars>>

\* the same of two systems
CompareSystems(a, b) ==
    /\ units = << >>
    /\ units' = <<a, b>>
    /\ cmp' = WorldSystem_cmp(<<a, b>>)
    /\ UNCHANGED <<graph, gpc, color_st, result, inserted, setvars, capvars, worldvars,
                   typevars, latevars>>

CmpNext ==
    \/ units = << >> /\ \E a, b \in Units : CompareNodes(a, b)
    \/ units = << >> /\ \E a, b \in Units : CompareSystems(a, b)

SpecCmp == Init /\ [][CmpNext]_vars

\* -------------------------------------------- test_cliques state machine
TestNode(w, r) == [writes |-> w, reads |-> r]

\* The four hand-written inputs of test_cliques, in the order of the test.
NodesA ==
    <<TestNode(<<0>>, <<0>>), TestNode(<<1>>, <<1>>), TestNode(<<2>>, <<2>>),
      TestNode(<<4>>, <<4>>), TestNode(<<5>>, <<5>>), TestNode(<<6>>, <<6>>),
      TestNode(<<7>>, <<7>>), TestNode(<<8>>, <<8>>)>>

NodesB ==
    <<TestNode(<<0>>, <<0>>), TestNode(<<0>>, <<1>>), TestNode(<<0>>, <<0>>),
      TestNode(<<0>>, <<1>>), TestNode(<<0>>, <<0>>), TestNode(<<0>>, <<1>>),
      TestNode(<<0>>, <<0>>), TestNode(<<0>>, <<1>>)>>

NodesC ==
    <<TestNode(<<0>>, <<0>>), TestNode(<<1>>, <<1>>), TestNode(<<0>>, <<0>>),
      TestNode(<<1>>, <<1>>), TestNode(<<5>>, <<0>>), TestNode(<<6>>, <<1>>),
      TestNode(<<7>>, <<0>>), TestNode(<<8>>, <<1>>)>>

NodesD ==
    <<TestNode(<<0>>, <<0, 1>>), TestNode(<<1>>, <<1, 2>>),
      TestNode(<<2>>, <<0, 1, 2, 3>>), TestNode(<<4>>, <<1, 2, 3>>),
      TestNode(<<2>>, <<2, 3>>), TestNode(<<2>>, <<3>>),
      TestNode(<<3>>, <<1, 3>>), TestNode(<<4>>, <<0, 3>>)>>

\* do_graph: graph.insert of the next node of the input
DoGraphInsert ==
    /\ gpc = "open"
    /\ Len(inserted) < Len(units)
    /\ graph' = graph_insert(graph, Len(inserted))
    /\ inserted' = Append(inserted, Len(inserted))
    /\ UNCHANGED <<cmp, gpc, color_st, result, setvars, extvars>>

\* Either one of the inputs of the test with the predicate of TestNode, or
\* any predicate over up to MaxNodes payloads.
CliquesInit ==
    /\ SetInit
    /\ GraphIdle
    /\ CapIdle
    /\ WorldIdle
    /\ TypeIdIdle
    /\ LateIdle
    /\ \/ units \in {NodesA, NodesB, NodesC, NodesD} /\ cmp = TestNode_cmp(units)
       \/ units = << >> /\ cmp \in SUBSET PayloadPairs

CliquesNext ==
    \/ DoGraphInsert
    \/ GraphNext

SpecCliques == CliquesInit /\ [][CliquesNext]_vars

\* -------------------------------------------------- World state machine
\* Systems registered in one World: at most MaxSystems.
MaxSystems == 3

\* A system before registration, with its dependencies; func is the outcome
\* its entry point returns.
WorldSystem(w, r) == [id |-> 0, func |-> "Ok", writes |-> w, reads |-> r]

\* The systems handed to add_system: one writing handle 0, one reading it,
\* one writing handle 1.
NewSystems ==
    {WorldSystem(<<0>>, << >>), WorldSystem(<< >>, <<0>>), WorldSystem(<<1>>, << >>)}

\* add_system: systems.insert(system), then system.id = SystemId::from(id)
add_system(w, system) ==
    LET r == insert(w.systems, system)
        idx == get_idx(r.set, r.key)
    IN [w EXCEPT !.systems =
           IF idx = None THEN r.set
           ELSE [r.set EXCEPT !.data[idx[1] + 1].id = r.key]]

\* resolve_system_tree, lines 108-119: a new graph with every system of
\* systems.iter(), which is the order of data, inserted.
RECURSIVE insert_systems(_, _, _)
insert_systems(g, n, i) ==
    IF i >= n THEN g ELSE insert_systems(graph_insert(g, i), n, i + 1)

\* A tree that keeps the batches of the earlier resolve.
system_tree_Extended(w, groups) ==
    w.system_tree \o
        [g \in DOMAIN groups |->
            [i \in DOMAIN groups[g] |-> w.systems.data[groups[g][i] + 1].id]]

\* resolve_system_tree, lines 125-130: every group mapped to the ids of its systems
system_tree(w, groups) ==
    [g \in DOMAIN groups |->
        [i \in DOMAIN groups[g] |-> w.systems.data[groups[g][i] + 1].id]]

AddSystem(system) ==
    /\ wpc = "idle"
    /\ len(world.systems) < MaxSystems
    /\ world' = add_system(world, system)
    /\ resolved' = [op |-> "add_system", res |-> "Ok", prev |-> None]
    /\ UNCHANGED <<wpc, graphvars, setvars, capvars, units, typevars, latevars>>

\* resolve_system_tree up to the call of cliques()
ResolveBegin ==
    /\ wpc = "idle"
    /\ wpc' = "resolving"
    /\ cmp' = WorldSystem_cmp(world.systems.data)
    /\ graph' = insert_systems(graph_new, len(world.systems), 0)
    /\ inserted' = [i \in 1..len(world.systems) |-> i - 1]
    /\ gpc' = "open"
    /\ color_st' = NoColoring
    /\ result' = NoResult
    /\ UNCHANGED <<world, resolved, setvars, capvars, units, typevars, latevars>>

\* resolve_system_tree from the return of cliques()
ResolveEnd ==
    /\ wpc = "resolving"
    /\ gpc = "done"
    /\ wpc' = "idle"
    /\ world' = IF result.kind = "Ok"
                THEN [world EXCEPT !.system_tree = system_tree(world, result.groups)]
                ELSE world
    /\ resolved' = [op |-> "resolve", res |-> result.kind,
                    prev |-> IF resolved.op = "resolve" /\ resolved.res = "Ok"
                             THEN Some(world.system_tree) ELSE None]
    /\ UNCHANGED <<graphvars, setvars, capvars, units, typevars, latevars>>

WorldNext ==
    \/ \E system \in NewSystems : AddSystem(system)
    \/ ResolveBegin
    \/ wpc = "resolving" /\ Rebuild
    \/ wpc = "resolving" /\ ColorBegin
    \/ wpc = "resolving" /\ ColorPass
    \/ wpc = "resolving" /\ Check
    \/ wpc = "resolving" /\ Into
    \/ ResolveEnd

SpecWorld == Init /\ [][WorldNext]_vars

\* ------------------------------------------------ type_id state machine
init_typeid_map == [writers |-> {}, poisoned |-> FALSE, map |-> << >>]

\* A lookup that answers with the first handle for every mapped type.
HashMap_get_First(m, k) == IF k \in DOMAIN m THEN Some(0) ELSE None

HashMap_get(m, k) == IF k \in DOMAIN m THEN Some(m[k]) ELSE None

\* HashMap::insert: the new map and the value the key had before
HashMap_insert(m, k, v) ==
    [map |-> [x \in DOMAIN m \cup {k} |-> IF x = k THEN v ELSE m[x]],
     old |-> HashMap_get(m, k)]

\* A write lock that does not wait for the writer that holds it.
can_write_Always(l) == TRUE

\* RwLock::write blocks while another guard is alive.
can_write(l) == l.writers = {}

\* The guard of thread t is dropped: by a return, or by a panic, which
\* poisons the lock.
drop_guard(l, t, panicking) ==
    [l EXCEPT !.writers = @ \ {t}, !.poisoned = @ \/ panicking]

Goto(t, label) == [threads EXCEPT ![t].pc = label]

\* InternalTypeId::of::<T>() is called by thread t.
TypeId(t, tid) ==
    /\ threads[t].pc = "idle"
    /\ threads' = [threads EXCEPT ![t] = [pc |-> "call_once", tid |-> tid, iid |-> 0]]
    /\ UNCHANGED <<TYPEID_INIT_ONCE, TYPEID_MAP, TYPEID_COUNTER, returned, assigned>>
    /\ UNCHANGED <<graphvars, setvars, capvars, units, worldvars, latevars>>

\* get_typeid_map: call_once lets one thread run the closure and blocks the
\* others until it has run.
CallOnce(t) ==
    /\ threads[t].pc = "call_once"
    /\ TYPEID_INIT_ONCE # "running"
    /\ IF TYPEID_INIT_ONCE = "incomplete"
       THEN TYPEID_INIT_ONCE' = "running" /\ threads' = Goto(t, "init")
       ELSE UNCHANGED TYPEID_INIT_ONCE /\ threads' = Goto(t, "deref")
    /\ UNCHANGED <<TYPEID_MAP, TYPEID_COUNTER, returned, assigned>>
    /\ UNCHANGED <<graphvars, setvars, capvars, units, worldvars, latevars>>

\* The closure of call_once: TYPEID_MAP.0.set(Some(init_typeid_map()))
InitMap(t) ==
    /\ threads[t].pc = "init"
    /\ TYPEID_MAP' = Some(init_typeid_map)
    /\ TYPEID_INIT_ONCE' = "complete"
    /\ threads' = Goto(t, "deref")
    /\ UNCHANGED <<TYPEID_COUNTER, returned, assigned>>
    /\ UNCHANGED <<graphvars, setvars, capvars, units, worldvars, latevars>>

\* get_typeid_map: match *TYPEID_MAP.0.as_ptr()
Deref(t) ==
    /\ threads[t].pc = "deref"
    /\ threads' = Goto(t, IF TYPEID_MAP = None THEN "panic" ELSE "write")
    /\ UNCHANGED <<TYPEID_INIT_ONCE, TYPEID_MAP, TYPEID_COUNTER, returned, assigned>>
    /\ UNCHANGED <<graphvars, setvars, capvars, units, worldvars, latevars>>

\* type_id: TYPEID_MAP.write(); Err when the lock is poisoned
Write(t) ==
    /\ threads[t].pc = "write"
    /\ can_write(TYPEID_MAP[1])
    /\ IF TYPEID_MAP[1].poisoned
       THEN threads' = Goto(t, "panic") /\ UNCHANGED TYPEID_MAP
       ELSE /\ threads' = Goto(t, "get")
            /\ TYPEID_MAP' = Some([TYPEID_MAP[1] EXCEPT !.writers = @ \cup {t}])
    /\ UNCHANGED <<TYPEID_INIT_ONCE, TYPEID_COUNTER, returned, assigned>>
    /\ UNCHANGED <<graphvars, setvars, capvars, units, worldvars, latevars>>

\* type_id: guard.get(&tid); a mapped type returns its handle
Get(t) ==
    /\ threads[t].pc = "get"
    /\ LET r == HashMap_get(TYPEID_MAP[1].map, threads[t].tid) IN
       IF r # None
       THEN /\ returned' = returned \cup {<<threads[t].tid, r[1]>>}
            /\ TYPEID_MAP' = Some(drop_guard(TYPEID_MAP[1], t, FALSE))
            /\ threads' = [threads EXCEPT ![t] = NoCallOfTypeId]
       ELSE /\ threads' = Goto(t, "fetch_add")
            /\ UNCHANGED <<returned, TYPEID_MAP>>
    /\ UNCHANGED <<TYPEID_INIT_ONCE, TYPEID_COUNTER, assigned>>
    /\ UNCHANGED <<graphvars, setvars, capvars, units, worldvars, latevars>>

\* type_id: iid = InternalTypeId(TYPEID_COUNTER.fetch_add(1, SeqCst))
FetchAdd(t) ==
    /\ threads[t].pc = "fetch_add"
    /\ TYPEID_COUNTER' = TYPEID_COUNTER + 1
    /\ threads' = [threads EXCEPT ![t].pc = "insert", ![t].iid = TYPEID_COUNTER]
    /\ UNCHANGED <<TYPEID_INIT_ONCE, TYPEID_MAP, returned, assigned>>
    /\ UNCHANGED <<graphvars, setvars, capvars, units, worldvars, latevars>>

\* type_id: guard.insert(tid, iid), panic when the type was mapped
GuardInsert(t) ==
    /\ threads[t].pc = "insert"
    /\ LET r == HashMap_insert(TYPEID_MAP[1].map, threads[t].tid, threads[t].iid)
           l == [TYPEID_MAP[1] EXCEPT !.map = r.map]
       IN IF r.old # None
          THEN /\ TYPEID_MAP' = Some(drop_guard(l, t, TRUE))
               /\ threads' = Goto(t, "panic")
               /\ UNCHANGED assigned
          ELSE /\ TYPEID_MAP' = Some(l)
               /\ threads' = Goto(t, "assert")
               /\ assigned' = Append(assigned, threads[t].tid)
    /\ UNCHANGED <<TYPEID_INIT_ONCE, TYPEID_COUNTER, returned>>
    /\ UNCHANGED <<graphvars, setvars, capvars, units, worldvars, latevars>>

\* type_id: the two assertions, then return iid
AssertLen(t) ==
    /\ threads[t].pc = "assert"
    /\ LET m == TYPEID_MAP[1].map IN
       IF m = << >> \/ Cardinality(DOMAIN m) - 1 # threads[t].iid
       THEN /\ TYPEID_MAP' = Some(drop_guard(TYPEID_MAP[1], t, TRUE))
            /\ threads' = Goto(t, "panic")
            /\ UNCHANGED returned
       ELSE /\ TYPEID_MAP' = Some(drop_guard(TYPEID_MAP[1], t, FALSE))
            /\ threads' = [threads EXCEPT ![t] = NoCallOfTypeId]
            /\ returned' = returned \cup {<<threads[t].tid, threads[t].iid>>}
    /\ UNCHANGED <<TYPEID_INIT_ONCE, TYPEID_COUNTER, assigned>>
    /\ UNCHANGED <<graphvars, setvars, capvars, units, worldvars, latevars>>

TypeIdNext ==
    \/ \E t \in Threads, tid \in TypeIds : TypeId(t, tid)
    \/ \E t \in Threads : CallOnce(t)
    \/ \E t \in Threads : InitMap(t)
    \/ \E t \in Threads : Deref(t)
    \/ \E t \in Threads : Write(t)
    \/ \E t \in Threads : Get(t)
    \/ \E t \in Threads : FetchAdd(t)
    \/ \E t \in Threads : GuardInsert(t)
    \/ \E t \in Threads : AssertLen(t)

SpecTypeId == Init /\ [][TypeIdNext]_vars

\* ---------------------------------------------- World::run state machine
\* Commands waiting in the queue of one World: at most MaxCommands.
MaxCommands == 2
WorldCommands == {"Stop", "ResolveFlowGraph"}

\* The systems handed to add_system before a run: a writer of handle 0 and
\* a reader of it whose entry point returns a failure.
RunSystems ==
    {WorldSystem(<<0>>, << >>),
     [WorldSystem(<< >>, <<0>>) EXCEPT !.func = "Err"]}

\* The position of the two nested for loops of run(): the first <<i, j>> at
\* or after <<i, j>> that names a system, <<Len(tree) + 1, 1>> when none is left.
RECURSIVE next_pos(_, _, _)
next_pos(tree, i, j) ==
    IF i > Len(tree) THEN <<i, 1>>
    ELSE IF j <= Len(tree[i]) THEN <<i, j>>
    ELSE next_pos(tree, i + 1, 1)

\* run(), lines 149-158: the body of the inner loop. The system is looked up;
\* the arm for a system that exists holds a comment only, the other arm logs
\* an error. Nothing is appended to executed and no outcome is read.
run_system(w, r, system_id) ==
    [r EXCEPT !.dispatched = Append(@, system_id)]

\* A drain loop that does not return on Stop.
drain_loop_IgnoreStop(queue) == FALSE

\* run(), lines 178-194: the loop over command_queue.drain(0..); TRUE when
\* it returns on a Stop command.
RECURSIVE drain_loop(_)
drain_loop(queue) ==
    IF queue = << >> THEN FALSE
    ELSE IF Head(queue) = "Stop" THEN TRUE
    ELSE drain_loop(Tail(queue))

StartOfLoop(tree) ==
    [NoRun EXCEPT !.pc = "loop", !.i = next_pos(tree, 1, 1)[1],
                  !.j = next_pos(tree, 1, 1)[2]]

\* queue_command: the command is pushed, then todo!() panics; the host may
\* catch the panic and go on.
QueueCommand(command) ==
    /\ running.pc = "idle"
    /\ wpc = "idle"
    /\ Len(world.command_queue) < MaxCommands
    /\ world' = [world EXCEPT !.command_queue = Append(@, command)]
    /\ resolved' = [op |-> "queue_command", res |-> "panic", prev |-> None]
    /\ UNCHANGED <<wpc, graphvars, setvars, capvars, units, typevars, latevars>>

\* run() is called, once the host has set the world up.
RunBegin ==
    /\ running.pc = "idle"
    /\ wpc = "idle"
    /\ running' = StartOfLoop(world.system_tree)
    /\ UNCHANGED <<worldvars, graphvars, setvars, capvars, units, typevars,
                   queryvars, itervars, refvars, groupvars>>

\* run(): one turn of the inner loop over the systems of a group
RunSystem ==
    /\ running.pc = "loop"
    /\ running.i <= Len(world.system_tree)
    /\ LET tree == world.system_tree
           system_id == tree[running.i][running.j]
           pos == next_pos(tree, running.i, running.j + 1)
       IN running' = [run_system(world, running, system_id)
                         EXCEPT !.i = pos[1], !.j = pos[2]]
    /\ UNCHANGED <<worldvars, graphvars, setvars, capvars, units, typevars,
                   queryvars, itervars, refvars, groupvars>>

\* run(): the loop over the drained commands, after the groups. Dropping the
\* Drain on return removes the commands behind Stop as well.
RunDrain ==
    /\ running.pc = "loop"
    /\ running.i > Len(world.system_tree)
    /\ world' = [world EXCEPT !.command_queue = << >>]
    /\ running' = IF drain_loop(world.command_queue)
                  THEN [running EXCEPT !.pc = "returned", !.result = Some("unit")]
                  ELSE StartOfLoop(world.system_tree)
    /\ UNCHANGED <<wpc, resolved, graphvars, setvars, capvars, units, typevars,
                   queryvars, itervars, refvars, groupvars>>

RunStep == RunSystem \/ RunDrain

\* The host registers its systems, may resolve the batches, queues its
\* commands and calls run().
Registering ==
    /\ running.pc = "idle"
    /\ world.command_queue = << >>
    /\ resolved.op \in {"new", "add_system"}

Resolving == running.pc = "idle" /\ world.command_queue = << >>

RunNext ==
    \/ Registering /\ \E system \in RunSystems : AddSystem(system)
    \/ Resolving /\ ResolveBegin
    \/ wpc = "resolving" /\ Rebuild
    \/ wpc = "resolving" /\ ColorBegin
    \/ wpc = "resolving" /\ ColorPass
    \/ wpc = "resolving" /\ Check
    \/ wpc = "resolving" /\ Into
    \/ ResolveEnd
    \/ \E command \in WorldCommands : QueueCommand(command)
    \/ RunBegin
    \/ RunSystem
    \/ RunDrain

\* The loop of run() is not starved: it is the only code running.
SpecRun == Init /\ [][RunNext]_vars /\ WF_vars(RunStep)

\* ------------------------------------------------- QueryBuilder and Query
\* Filters pushed on one builder: at most MaxFilters.
MaxFilters == 3

QueryFilter(kind, arg) == [kind |-> kind, arg |-> arg]

\* A ComponentNot filter sorted before everything else.
precedence_NotFirst(f) ==
    CASE f.kind \in {"ComponentAnyChanged", "ComponentChanged",
                     "SpatialCloserThan", "SpatialFurtherThan"} -> 10
      [] f.kind = "ComponentNot" -> 5
      [] f.kind \in {"ComponentWrite", "ComponentAccess"} -> 1000

\* QueryFilter::precedence: a lower value sorts first
precedence(f) ==
    CASE f.kind \in {"ComponentAnyChanged", "ComponentChanged",
                     "SpatialCloserThan", "SpatialFurtherThan"} -> 10
      [] f.kind = "ComponentNot" -> 20
      [] f.kind \in {"ComponentWrite", "ComponentAccess"} -> 1000

\* Ord for QueryFilter: filters compare by precedence alone; TRUE when a
\* sorts before or equal to b.
QueryFilter_le(a, b) == precedence(a) <= precedence(b)

\* One insertion of the stable sort: f goes behind every filter that is not
\* greater than it.
RECURSIVE sort_insert(_, _)
sort_insert(sorted, f) ==
    IF sorted = << >> THEN <<f>>
    ELSE IF QueryFilter_le(sorted[Len(sorted)], f) THEN Append(sorted, f)
    ELSE Append(sort_insert(SubSeq(sorted, 1, Len(sorted) - 1), f),
                sorted[Len(sorted)])

\* Vec::sort: the stable sort of the filters by Ord
RECURSIVE sort(_)
sort(v) ==
    IF v = << >> THEN << >>
    ELSE sort_insert(sort(SubSeq(v, 1, Len(v) - 1)), v[Len(v)])

push_filter(b, f) ==
    IF b.cached # None THEN b
    ELSE [b EXCEPT !.filter_set = Append(@, f)]

\* QueryBuilder::with
with(b, id) ==
    IF b.cached # None THEN b
    ELSE [b EXCEPT !.filter_set = Append(@, QueryFilter("ComponentAccess", id)),
                   !.components = Append(@, id)]

\* QueryBuilder::not, changed, any_changed
not(b, id) == push_filter(b, QueryFilter("ComponentNot", id))
changed(b, id) == push_filter(b, QueryFilter("ComponentChanged", id))
any_changed(b, id) == push_filter(b, QueryFilter("ComponentAnyChanged", id))

\* QueryBuilder::closer_than, further_than
closer_than(b, max_dist) == push_filter(b, QueryFilter("SpatialCloserThan", max_dist))
further_than(b, min_dist) == push_filter(b, QueryFilter("SpatialFurtherThan", min_dist))

\* QueryBuilder::sort_filters
sort_filters(b) ==
    IF b.cached # None THEN b
    ELSE [b EXCEPT !.filter_set = sort(@)]

\* sort_and_prune_filters: the loop over i in 0..len; at the first access
\* or write filter the list is truncated to i filters.
RECURSIVE prune_loop(_, _)
prune_loop(v, i) ==
    IF i >= Len(v) THEN v
    ELSE IF v[i + 1].kind \in {"ComponentAccess", "ComponentWrite"}
         THEN truncate(v, i)
         ELSE prune_loop(v, i + 1)

sort_and_prune_filters(b) ==
    [b EXCEPT !.filter_set = prune_loop(sort(@), 0)]

\* QueryBuilder::make
make(b) ==
    IF b.cached # None THEN b.cached[1]
    ELSE [components |-> sort_and_prune_filters(b).components,
          filter_set |-> sort_and_prune_filters(b).filter_set]

Distances == {1, 10}

\* The builder is still in the caller's hands and has room for a filter.
CanPush == query = None /\ Len(builder.filter_set) < MaxFilters

BuilderCall(op, b) ==
    /\ builder' = b
    /\ bpc' = op
    /\ UNCHANGED <<query, setvars, graphvars, capvars, units, worldvars,
                   typevars, runvars, itervars, refvars, groupvars>>

With(id) == CanPush /\ BuilderCall("with", with(builder, id))

Not(id) == CanPush /\ BuilderCall("not", not(builder, id))

Changed(id) == CanPush /\ BuilderCall("changed", changed(builder, id))

AnyChanged(id) == CanPush /\ BuilderCall("any_changed", any_changed(builder, id))

CloserThan(max_dist) ==
    CanPush /\ BuilderCall("closer_than", closer_than(builder, max_dist))

FurtherThan(min_dist) ==
    CanPush /\ BuilderCall("further_than", further_than(builder, min_dist))

SortFilters ==
    /\ query = None
    /\ bpc # "sort_filters"
    /\ BuilderCall("sort_filters", sort_filters(builder))

\* make() consumes the builder; builder keeps the value that was handed over.
Make ==
    /\ query = None
    /\ query' = Some(make(builder))
    /\ bpc' = "make"
    /\ UNCHANGED <<builder, setvars, graphvars, capvars, units, worldvars,
                   typevars, runvars, itervars, refvars, groupvars>>

QueryNext ==
    \/ \E id \in Handles : With(id)
    \/ \E id \in Handles : Not(id)
    \/ \E id \in Handles : Changed(id)
    \/ \E id \in Handles : AnyChanged(id)
    \/ \E d \in Distances : CloserThan(d)
    \/ \E d \in Distances : FurtherThan(d)
    \/ SortFilters
    \/ Make

SpecQuery == Init /\ [][QueryNext]_vars

\* ------------------------------------------------- QueryIter and its next
\* World::mark_dependency: the body is todo!("implement me")
mark_dependency(dependency, system_id, component_id) == "panic"

\* A component set holding one component for each entity of keys, added in
\* that order.
RECURSIVE component_set(_)
component_set(keys) ==
    IF keys = << >> THEN new
    ELSE insert_with(component_set(SubSeq(keys, 1, Len(keys) - 1)),
                     keys[Len(keys)], 1).set

EntityOrders == UNION {Orders(S) : S \in SUBSET Keys}

\* The component sets of a query over two components, in the order asked.
RequiredComponents ==
    {<<component_set(a), component_set(b)>> : a, b \in EntityOrders}

\* into_iter, lines 235-242: the iterator before it is filled
QueryIter_new(required) ==
    [pc |-> "query", ordered_components |-> required, min_set_index |-> 0,
     iteration_index |-> 0, maximum_iterations |-> 0, yielded |-> << >>]

\* into_iter, lines 280-292: enumerate().min_by_key(len), the index of the
\* first of the shortest sets
min_by_key(sets) ==
    CHOOSE i \in 0..(Len(sets) - 1) :
        /\ \A j \in 0..(Len(sets) - 1) : len(sets[i + 1]) <= len(sets[j + 1])
        /\ \A j \in 0..(i - 1) : len(sets[j + 1]) > len(sets[i + 1])

\* into_iter, lines 276-315: the iterator once every set asked for is found
QueryIter_filled(required) ==
    [QueryIter_new(required) EXCEPT
        !.pc = "iter",
        !.min_set_index = min_by_key(required),
        !.maximum_iterations = len(required[min_by_key(required) + 1])]

\* into_iter: the first required set found is pushed and marked as a read
\* dependency, which panics; with no set found the tuple of sets is
\* incomplete and todo!() panics as well.
into_iter(it) ==
    IF it.ordered_components = << >>
       \/ mark_dependency("Read", 0, 0) = "panic"
    THEN [it EXCEPT !.pc = "panic"]
    ELSE QueryIter_filled(it.ordered_components)

\* SparseSet::get_key
get_key(s, idx) == IF idx < len(s) THEN Some(s.dense[idx + 1]) ELSE None

\* QueryIter::next: [iter, item]. Every path through the body of the while
\* loop returns, so the loop body runs at most once per call.
next(it) ==
    IF it.iteration_index < it.maximum_iterations
    THEN LET key == get_key(it.ordered_components[it.min_set_index + 1],
                            it.iteration_index)
         IN IF key = None THEN [iter |-> it, item |-> None]
            ELSE LET moved == [it EXCEPT !.iteration_index = @ + 1] IN
                 IF \A c \in DOMAIN it.ordered_components :
                        get(it.ordered_components[c], key[1]) # None
                 THEN [iter |-> moved, item |-> Some(key[1])]
                 ELSE [iter |-> moved, item |-> None]
    ELSE [iter |-> it, item |-> None]

\* into_iter is called on a made query.
IntoIter ==
    /\ iter.pc = "query"
    /\ iter' = into_iter(iter)
    /\ UNCHANGED <<setvars, graphvars, capvars, units, worldvars, typevars,
                   runvars, queryvars, refvars, groupvars>>

\* One turn of a for loop over the iterator: next() is called, an item is
\* handed to the loop body, None ends the loop.
NextItem ==
    /\ iter.pc = "iter"
    /\ LET r == next(iter) IN
       iter' = IF r.item = None
               THEN [r.iter EXCEPT !.pc = "done"]
               ELSE [r.iter EXCEPT !.yielded = Append(@, r.item[1])]
    /\ UNCHANGED <<setvars, graphvars, capvars, units, worldvars, typevars,
                   runvars, queryvars, refvars, groupvars>>

\* next() taken as a unit: it starts from a query over two component sets,
\* or from the iterator lines 276-315 of into_iter describe for them.
IterInit ==
    /\ SetInit
    /\ cmp = {}
    /\ GraphIdle
    /\ CapIdle
    /\ units = << >>
    /\ WorldIdle
    /\ TypeIdIdle
    /\ RunIdle
    /\ QueryIdle
    /\ RefIdle
    /\ GroupIdle
    /\ \E required \in RequiredComponents :
          iter \in {QueryIter_new(required), QueryIter_filled(required)}

IterNext == IntoIter \/ NextItem

SpecIter == IterInit /\ [][IterNext]_vars

\* ------------------------------------------------ Ref and its two views
\* The systems of a world whose queries hand out Refs: two kinds of readers
\* and a writer.
RefSystems ==
    {WorldSystem(<< >>, <<0>>), WorldSystem(<< >>, <<0, 1>>),
     WorldSystem(<<1>>, << >>)}

\* Ref::new(item, Some(world)), as next() builds it for system_id
Ref_new(system_id, component_id) ==
    [pc |-> "held", system_id |-> system_id, component_id |-> component_id,
     world |-> Some(system_id), last |-> "new"]

\* Deref for Ref: the target is handed out, nothing is marked
deref(r) == [r EXCEPT !.last = "deref"]

\* DerefMut for Ref: with a world, the write dependency is marked first,
\* through LocalWorld::mark_dependency, and the call does not come back.
deref_mut(r) ==
    IF r.world # None
       /\ mark_dependency("Write", r.world[1], r.component_id) = "panic"
    THEN [r EXCEPT !.pc = "panic", !.last = "deref_mut"]
    ELSE [r EXCEPT !.last = "deref_mut"]

\* A query of a registered system yields a Ref to a component.
Yield(system_id, component_id) ==
    /\ view.pc = "none"
    /\ wpc = "idle"
    /\ resolved.op = "resolve"
    /\ contains(world.systems, system_id)
    /\ view' = Ref_new(system_id, component_id)
    /\ UNCHANGED <<setvars, graphvars, capvars, units, worldvars, typevars,
                   runvars, queryvars, itervars, groupvars>>

RefDeref ==
    /\ view.pc = "held"
    /\ view' = deref(view)
    /\ UNCHANGED <<setvars, graphvars, capvars, units, worldvars, typevars,
                   runvars, queryvars, itervars, groupvars>>

\* mark_dependency leaves the world as it is: no write set is touched.
RefDerefMut ==
    /\ view.pc = "held"
    /\ view' = deref_mut(view)
    /\ resolved' = IF deref_mut(view).pc = "panic"
                   THEN [op |-> "mark_dependency", res |-> "panic", prev |-> None]
                   ELSE resolved
    /\ UNCHANGED <<world, wpc, setvars, graphvars, capvars, units, typevars,
                   runvars, queryvars, itervars, groupvars>>

\* The host registers systems and resolves; a query hands out a Ref; after
\* the views were taken the host may resolve again.
RefNext ==
    \/ /\ view.pc = "none"
       /\ resolved.op \in {"new", "add_system"}
       /\ \E system \in RefSystems : AddSystem(system)
    \/ view.pc \in {"none", "panic"} /\ ResolveBegin
    \/ wpc = "resolving" /\ Rebuild
    \/ wpc = "resolving" /\ ColorBegin
    \/ wpc = "resolving" /\ ColorPass
    \/ wpc = "resolving" /\ Check
    \/ wpc = "resolving" /\ Into
    \/ ResolveEnd
    \/ \E s \in 0..(MaxSystems - 1), c \in Handles : Yield(s, c)
    \/ RefDeref
    \/ RefDerefMut

SpecRef == Init /\ [][RefNext]_vars

\* --------------------------------------------------------- SystemGroup
\* Ord for InternalTypeId: every comparison answers Equal.
InternalTypeId_cmp(a, b) == "Equal"

\* derive(PartialOrd, Ord) for ComponentSetId(InternalTypeId): the order of
\* the wrapped id.
ComponentSetId_cmp(a, b) == InternalTypeId_cmp(a, b)

\* derive(PartialEq, Eq): two ids are equal when their numbers are.
ComponentSetId_eq(a, b) == a = b

\* One insertion of the stable sort: id goes behind every id that is not
\* greater than it.
RECURSIVE sort_ids_insert(_, _)
sort_ids_insert(sorted, id) ==
    IF sorted = << >> THEN <<id>>
    ELSE IF ComponentSetId_cmp(sorted[Len(sorted)], id) # "Greater"
    THEN Append(sorted, id)
    ELSE Append(sort_ids_insert(SubSeq(sorted, 1, Len(sorted) - 1), id),
                sorted[Len(sorted)])

\* Vec::sort: the stable sort of the ids by Ord
RECURSIVE sort_ids(_)
sort_ids(v) ==
    IF v = << >> THEN << >>
    ELSE sort_ids_insert(sort_ids(SubSeq(v, 1, Len(v) - 1)), v[Len(v)])

\* Vec::dedup: of every run of consecutive equal elements the first stays.
RECURSIVE dedup(_)
dedup(v) ==
    IF Len(v) <= 1 THEN v
    ELSE LET d == dedup(SubSeq(v, 1, Len(v) - 1)) IN
         IF ComponentSetId_eq(d[Len(d)], v[Len(v)]) THEN d
         ELSE Append(d, v[Len(v)])

\* The loop of From<Vec<&WorldSystem>>: ids and handles in list order.
RECURSIVE extend_loop(_, _)
extend_loop(g, systems) ==
    IF systems = << >> THEN g
    ELSE LET system == Head(systems) IN
         extend_loop(
           [systems |-> Append(g.systems, system.id),
            group_mutable |-> g.group_mutable \o system.writes,
            group_immutable |-> g.group_immutable \o system.reads],
           Tail(systems))

\* From<Vec<&WorldSystem>> for SystemGroup
SystemGroup_from(systems) ==
    LET g == extend_loop(SystemGroup_default, systems) IN
    [systems |-> g.systems,
     group_mutable |-> dedup(sort_ids(g.group_mutable)),
     group_immutable |-> dedup(sort_ids(g.group_immutable))]

\* The dependency lists a system of a group may have: at most one handle read
\* and at most one written.
HandleLists == {<< >>} \cup {<<h>> : h \in Handles}

GroupSystems == {WorldSystem(w, r) : w \in HandleLists, r \in HandleLists}

\* The host puts one more registered system on the list.
GroupPush(system) ==
    /\ group.pc \in {"none", "list"}
    /\ Len(group.systems) < MaxSystems
    /\ group' = [group EXCEPT
                   !.pc = "list",
                   !.systems = Append(@, [system EXCEPT
                                           !.id = Len(group.systems)])]
    /\ UNCHANGED <<graphvars, setvars, capvars, units, worldvars, typevars,
                   runvars, queryvars, itervars, refvars>>

\* SystemGroup::from(systems)
GroupFrom ==
    /\ group.pc \in {"none", "list"}
    /\ group' = [group EXCEPT !.pc = "built",
                              !.out = SystemGroup_from(group.systems)]
    /\ UNCHANGED <<graphvars, setvars, capvars, units, worldvars, typevars,
                   runvars, queryvars, itervars, refvars>>

GroupNext ==
    \/ /\ group.pc \in {"none", "list"}
       /\ \E system \in GroupSystems : GroupPush(system)
    \/ GroupFrom

SpecGroup == Init /\ [][GroupNext]_vars

\* ------------------------------------------------------------- claims
LiveKeys == {k \in Keys : model[k] # None}

Count(seq, x) == Cardinality({i \in DOMAIN seq : seq[i] = x})

RECURSIVE Flatten(_)
Flatten(groups) ==
    IF groups = << >> THEN << >> ELSE Head(groups) \o Flatten(Tail(groups))

\* Two distinct nodes of the graph that conflict (in this order) and share a color.
SharedColorConflict ==
    \E i, j \in DOMAIN graph.nodes.data :
        /\ i # j
        /\ conflict_cmp(graph.nodes.data[i], graph.nodes.data[j])
        /\ graph.nodes.data[i].color = graph.nodes.data[j].color

\* C1: whenever cliques() returns Ok(groups), no two distinct nodes of one
\* group satisfy the conflict predicate in either argument order; when two
\* conflicting nodes share a color, cliques() returns an error, not a partition.
C1_GroupsConflictFree ==
    /\ result.kind = "Ok" =>
          \A g \in DOMAIN result.groups :
              \A i, j \in DOMAIN result.groups[g] :
                  i # j => <<result.groups[g][i], result.groups[g][j]>> \notin cmp
    /\ (gpc = "done" /\ SharedColorConflict) => result.kind = "Err"

C1_Witness ==
    /\ result.kind = "Ok"
    /\ Len(result.groups) >= 2
    /\ \E g \in DOMAIN result.groups : Len(result.groups[g]) >= 2

\* C2: when cliques() returns Ok(groups), the groups together hold every
\* inserted node exactly as often as it was inserted: none lost, none
\* duplicated, the node count preserved.
C2_PartitionComplete ==
    result.kind = "Ok" =>
        /\ Len(Flatten(result.groups)) = Len(inserted)
        /\ \A p \in Payloads :
              Count(Flatten(result.groups), p) = Count(inserted, p)

C2_Witness ==
    /\ result.kind = "Ok"
    /\ Len(inserted) = MaxNodes
    /\ \E g \in DOMAIN result.groups : Len(result.groups[g]) >= 2

\* C3: after any sequence of insert_with and remove, get(k) is the item most
\* recently inserted for k, or nothing if k was never inserted or was last
\* removed, and len() is the number of live keys: the set agrees with the
\* reference map.
C3_RefinesMap ==
    /\ \A k \in Keys : get(set, k) = model[k]
    /\ \A k \in 0..(MaxKey + 1) : contains(set, k) <=> k \in LiveKeys
    /\ len(set) = Cardinality(LiveKeys)

C3_Witness ==
    /\ last.op = "insert_with"
    /\ last.ret # None
    /\ last.ret # Some(last.item)
    /\ Cardinality(LiveKeys) = 2
    /\ capacity(set) > MaxKey

\* C4: insert_with(k, v) followed immediately by remove(k) returns v, and k
\* is absent afterwards.
C4_RoundTrip ==
    (last.op = "remove" /\ last.prev # None) =>
        /\ last.ret = last.prev
        /\ get(set, last.key) = None
        /\ ~contains(set, last.key)

C4_Witness ==
    /\ last.op = "remove"
    /\ last.prev # None
    /\ len(set) >= 2

\* C5: dense.len == data.len <= sparse.len; every live key k has
\* sparse[k] < dense.len and dense[sparse[k]] == k; dense holds no key twice
\* and only live keys; the sparse entry of every key that is not live (a
\* removed key among them) is EMPTY.
C5_Layout ==
    /\ Len(set.dense) = Len(set.data)
    /\ Len(set.dense) <= Len(set.sparse)
    /\ \A k \in LiveKeys :
          /\ k < capacity(set)
          /\ set.sparse[k + 1] < Len(set.dense)
          /\ set.dense[set.sparse[k + 1] + 1] = k
    /\ \A i, j \in DOMAIN set.dense : set.dense[i] = set.dense[j] => i = j
    /\ \A i \in DOMAIN set.dense : set.dense[i] \in LiveKeys
    /\ \A k \in 0..(capacity(set) - 1) :
          k \notin LiveKeys => set.sparse[k + 1] = EMPTY_KEY

C5_Witness ==
    /\ last.op = "remove"
    /\ last.ret # None
    /\ len(set) >= 1
    /\ set.sparse[last.key + 1] = EMPTY_KEY

\* C6: remove(k) of a live key leaves every other key as it was (live or not,
\* and with the same item, the swapped last entry included) and decreases len
\* by exactly 1.
C6_RemoveFrame ==
    [][(last'.op = "remove" /\ last'.ret # None) =>
          /\ len(set') = len(set) - 1
          /\ \A j \in Keys \ {last'.key} :
                /\ get(set', j) = get(set, j)
                /\ contains(set', j) <=> contains(set, j)]_vars

C6_Witness ==
    /\ last.op = "remove"
    /\ last.ret # None
    /\ len(set) = 2
    /\ set.dense[1] > set.dense[2]

\* C7: remove(k) of a key that is not live (never inserted, already removed,
\* or k >= capacity) returns nothing and leaves sparse, dense and data as
\* they were.
C7_RemoveAbsent ==
    [][(last'.op = "remove" /\ last'.key \notin LiveKeys) =>
          /\ last'.ret = None
          /\ pc' = "ready"
          /\ set' = set]_vars

C7_Witness ==
    /\ last.op = "remove"
    /\ last.ret = None
    /\ last.key < capacity(set)
    /\ len(set) >= 1

\* C8: insert_with(k, v) on a live key returns the stored item, replaces it in
\* the same dense slot and leaves len and every other key's item unchanged; on
\* a key that is not live it returns nothing, appends k and v at slot len and
\* records that slot in sparse[k].
C8_InsertWith ==
    [][(last'.op = "insert_with" /\ pc' = "ready") =>
          LET k == last'.key
              v == last'.item
          IN IF k \in LiveKeys
             THEN /\ last'.ret = get(set, k)
                  /\ get_idx(set', k) = get_idx(set, k)
                  /\ get(set', k) = Some(v)
                  /\ set'.dense = set.dense
                  /\ len(set') = len(set)
                  /\ \A j \in Keys \ {k} : get(set', j) = get(set, j)
             ELSE /\ last'.ret = None
                  /\ set'.dense = Append(set.dense, k)
                  /\ set'.data = Append(set.data, v)
                  /\ set'.sparse[k + 1] = len(set)]_vars

C8_Witness ==
    /\ last.op = "insert_with"
    /\ last.ret # None
    /\ len(set) >= 2
    /\ set.dense[1] = last.key

\* C9: insert (auto key) assigns the smallest key whose sparse slot is EMPTY
\* when one exists, also in a set that is empty with capacity > 0, and a key
\* equal to the capacity only when no slot is EMPTY.
C9_InsertFirstEmpty ==
    [][last'.op = "insert" =>
          last'.key = IF EmptySlots(set) # {} THEN MinOf(EmptySlots(set))
                      ELSE capacity(set)]_vars

\* C10: every growth step of insert_with at least doubles the capacity of the
\* sparse array (for a capacity > 0), whatever the number of live entries.
C10_GrowthDoubles ==
    \A i \in 1..(Len(last.caps) - 1) :
        last.caps[i] > 0 => last.caps[i + 1] >= 2 * last.caps[i]

\* C11: insert_with returns for every key: its growth loop ends, also for a
\* key at or above the capacity limit, where reserve reports an error.
C11_InsertWithTerminates == pc # "hung"

\* C12: a reserve that returns an error leaves the set as it was (the same
\* sparse, dense and data, hence live keys, values, len and capacity), and
\* the error is CapacityOverflow exactly when old capacity + additional is
\* not below the limit, AllocError otherwise.
C12_ReserveErrRestores ==
    [][(last'.op = "reserve"
        /\ reserved'.res \in {"CapacityOverflow", "AllocError"})
       => /\ set' = set
          /\ (reserved'.res = "CapacityOverflow")
               <=> (last'.key + capacity(set) >= ISIZE_MAX)]_vars

\* C13: reserve returns, never decreases the capacity and never makes a live
\* key absent; Ok(c) has c = old capacity + additional = capacity(); a sum
\* not below the limit, also one that leaves the machine word, gives
\* CapacityOverflow.
C13_ReserveMonotone ==
    [][last'.op = "reserve"
       => /\ pc' # "panic"
          /\ capacity(set') >= capacity(set)
          /\ \A k \in Keys \cup BigKeys : contains(set, k) => contains(set', k)
          /\ reserved'.res = "Ok"
               => /\ reserved'.value = last'.key + capacity(set)
                  /\ capacity(set') = reserved'.value
          /\ last'.key + capacity(set) >= ISIZE_MAX
               => reserved'.res = "CapacityOverflow"]_vars

\* The handles of a list of dependencies.
Deps(v) == {v[i] : i \in DOMAIN v}

Overlap(a, b) ==
    (Deps(a.reads) \cap Deps(b.writes))
        \cup (Deps(a.writes) \cap Deps(b.reads))
        \cup (Deps(a.writes) \cap Deps(b.writes))

\* C14: the conflict predicate of two units A and B is true iff
\* (reads(A) /\ writes(B)) \/ (writes(A) /\ reads(B)) \/ (writes(A) /\ writes(B))
\* is non-empty; it is symmetric, and two read-only units never conflict.
C14_ConflictPredicate ==
    \A i, j \in DOMAIN units :
        i # j =>
            /\ <<i - 1, j - 1>> \in cmp <=> Overlap(units[i], units[j]) # {}
            /\ <<i - 1, j - 1>> \in cmp <=> <<j - 1, i - 1>> \in cmp
            /\ (units[i].writes = << >> /\ units[j].writes = << >>)
                 => <<i - 1, j - 1>> \notin cmp

C14_Witness ==
    /\ Len(units) = 2
    /\ units[1].reads = << >> /\ units[2].reads = << >>
    /\ Len(units[1].writes) = 2 /\ Len(units[2].writes) = 1
    /\ units[1].writes[1] # units[2].writes[1]
    /\ cmp = {<<0, 1>>, <<1, 0>>}

\* The nodes handed to the graph, as ranks.
InsertedSet == {inserted[i] : i \in DOMAIN inserted}

\* C15: for n >= 1 inserted nodes no two of which conflict, cliques() returns
\* Ok with exactly 1 group, which holds all n nodes (Scenario A with n = 8).
C15_NoConflictOneGroup ==
    (/\ Len(inserted) >= 1
     /\ \A a, b \in InsertedSet : <<a, b>> \notin cmp)
    => /\ gpc # "panic"
       /\ gpc = "done"
            => /\ result.kind = "Ok"
               /\ Len(result.groups) = 1
               /\ Len(result.groups[1]) = Len(inserted)
               /\ {result.groups[1][i] : i \in 1..Len(inserted)} = InsertedSet

C15_Witness ==
    /\ units = NodesA
    /\ Len(inserted) = Len(NodesA)
    /\ result.kind = "Ok"
    /\ Len(result.groups) = 1

\* C16: for n inserted nodes each of which conflicts with every other one,
\* cliques() returns Ok with exactly n groups of size 1 (Scenario B with n = 8).
C16_AllConflictSingletons ==
    (\A a, b \in InsertedSet : a # b => <<a, b>> \in cmp)
    => /\ gpc # "panic"
       /\ gpc = "done"
            => /\ result.kind = "Ok"
               /\ Len(result.groups) = Len(inserted)
               /\ \A g \in DOMAIN result.groups : Len(result.groups[g]) = 1

C16_Witness ==
    /\ units = NodesB
    /\ Len(inserted) = Len(NodesB)
    /\ result.kind = "Ok"
    /\ Len(result.groups) = Len(NodesB)

\* The groups cliques() returned hold no two nodes that conflict.
GroupsConflictFree ==
    \A g \in DOMAIN result.groups :
        \A i, j \in DOMAIN result.groups[g] :
            i # j => <<result.groups[g][i], result.groups[g][j]>> \notin cmp

\* C17: on the two mixed 8-node inputs of test_cliques, inserted in the listed
\* order, cliques() returns a conflict-free partition with exactly 3 groups
\* for the first and exactly 6 groups for the second.
C17_MixedScenarios ==
    (units \in {NodesC, NodesD} /\ Len(inserted) = Len(units))
    => /\ gpc # "panic"
       /\ gpc = "done"
            => /\ result.kind = "Ok"
               /\ GroupsConflictFree
               /\ Len(Flatten(result.groups)) = Len(inserted)
               /\ units = NodesC => Len(result.groups) = 3
               /\ units = NodesD => Len(result.groups) = 6

C17_Witness ==
    /\ units = NodesD
    /\ Len(inserted) = Len(NodesD)
    /\ result.kind = "Ok"
    /\ Len(result.groups) = 6

\* The batches of a tree, whatever their order.
Batches(tree) == {tree[g] : g \in DOMAIN tree}

\* C18: resolve_system_tree called twice in a row, with no system registered
\* in between, produces the same partition both times: as many batches, and
\* the same batches with the same member systems.
C18_ResolveIdempotent ==
    (resolved.op = "resolve" /\ resolved.res = "Ok" /\ resolved.prev # None)
    => /\ Len(world.system_tree) = Len(resolved.prev[1])
       /\ Batches(world.system_tree) = Batches(resolved.prev[1])

C18_Witness ==
    /\ resolved.op = "resolve" /\ resolved.res = "Ok" /\ resolved.prev # None
    /\ len(world.systems) = MaxSystems
    /\ Len(world.system_tree) = 2
    /\ world.system_tree # resolved.prev[1]

\* C19: type handles are stable and injective: every call for one type
\* returns the same handle, and two types never get the same handle.
C19_HandlesStableInjective ==
    \A p, q \in returned : (p[1] = q[1]) <=> (p[2] = q[2])

C19_Witness ==
    /\ {p[1] : p \in returned} = TypeIds
    /\ \E t \in Threads :
          /\ threads[t].pc = "get"
          /\ threads[t].tid \in {p[1] : p \in returned}

\* C20: under any interleaving of the threads, no call panics (the assertion
\* map.len() - 1 == iid included), the handles in the map are 0..n-1 in the
\* order of first assignment with no gap or duplicate, and every thread is
\* returned the one handle the map holds for its type.
C20_ConcurrentAssignment ==
    /\ \A t \in Threads : threads[t].pc # "panic"
    /\ TYPEID_MAP # None =>
          LET m == TYPEID_MAP[1].map IN
          /\ Len(assigned) = Cardinality(DOMAIN m)
          /\ \A i \in DOMAIN assigned :
                assigned[i] \in DOMAIN m /\ m[assigned[i]] = i - 1
          /\ \A p \in returned : p[1] \in DOMAIN m /\ m[p[1]] = p[2]
    /\ TYPEID_MAP = None => returned = {}

C20_Witness ==
    /\ \E t, u \in Threads :
          /\ t # u
          /\ threads[t].tid = threads[u].tid
          /\ threads[t].pc = "fetch_add"
          /\ threads[u].pc = "write"
    /\ Len(assigned) = 1

\* The ids of the registered systems.
Registered == {world.systems.data[k].id : k \in DOMAIN world.systems.data}

PassDone == running.pc = "loop" /\ running.i > Len(world.system_tree)

\* C21: in every iteration of the run loop every system of every batch is
\* executed exactly once, batch after batch in list order: when the pass over
\* the batches is over, the systems executed in it are those of the batch
\* list, in its order.
C21_RunExecutesBatches ==
    PassDone => running.executed = Flatten(world.system_tree)

StopQueued == \E k \in DOMAIN world.command_queue : world.command_queue[k] = "Stop"

\* C22: the command queue is drained once per iteration of the run loop,
\* after the pass over the batches and never during it; the drain empties
\* the queue; run() returns exactly at a drain that meets Stop, and starts a
\* new iteration otherwise; and with Stop queued a running run() eventually
\* returns.
C22_DrainOncePerIteration ==
    /\ [][running.pc = "loop" =>
            IF PassDone
            THEN /\ world'.command_queue = << >>
                 /\ running'.pc = (IF StopQueued THEN "returned" ELSE "loop")
                 /\ ~StopQueued => running' = StartOfLoop(world.system_tree)
            ELSE /\ world'.command_queue = world.command_queue
                 /\ running'.pc = "loop"
                 /\ Len(running'.dispatched) = Len(running.dispatched) + 1]_vars
    /\ [][running'.pc = "returned" /\ running.pc # "returned"
            => PassDone /\ StopQueued]_vars
    /\ (running.pc = "loop" /\ StopQueued) ~> (running.pc = "returned")

\* run() has returned on Stop after a pass over at least two systems.
C22_Witness ==
    /\ running.pc = "returned"
    /\ Len(running.dispatched) >= 2
    /\ world.command_queue = << >>

\* C23: whenever run() dispatches batches, every registered system is in
\* exactly one batch of the batch list, whether or not the host resolved.
C23_RunResolvesFirst ==
    running.pc = "loop" =>
        /\ Len(Flatten(world.system_tree)) = Cardinality(Registered)
        /\ \A id \in Registered :
              \E k \in DOMAIN Flatten(world.system_tree) :
                  Flatten(world.system_tree)[k] = id

Failing(system_id) ==
    \E k \in DOMAIN world.systems.data :
        /\ world.systems.data[k].id = system_id
        /\ world.systems.data[k].func = "Err"

\* C24: when a system that run() reached returns a failure, run() reports
\* the failure to its caller.
C24_FailureReported ==
    (/\ running.pc = "returned"
     /\ \E k \in DOMAIN running.dispatched : Failing(running.dispatched[k]))
        => running.result = Some("Err")

IsPermutation(a, b) ==
    /\ Len(a) = Len(b)
    /\ \A k \in DOMAIN a : Count(a, a[k]) = Count(b, a[k])

\* The three classes of filters: spatial and changed, exclusion, access and write.
FilterClass(f) ==
    CASE f.kind \in {"ComponentAccess", "ComponentWrite"} -> 3
      [] f.kind = "ComponentNot" -> 2
      [] OTHER -> 1

ScenarioC_Added ==
    <<QueryFilter("ComponentAccess", 0), QueryFilter("SpatialCloserThan", 10),
      QueryFilter("ComponentNot", 1)>>

ScenarioC_Sorted ==
    <<QueryFilter("SpatialCloserThan", 10), QueryFilter("ComponentNot", 1),
      QueryFilter("ComponentAccess", 0)>>

\* C25: sort_filters() leaves a permutation of the filters that were added
\* in which spatial and changed filters precede exclusion filters, which
\* precede access and write filters; [access:0, closer-than:10, not:1]
\* becomes [closer-than:10, not:1, access:0].
C25_SortFiltersByPrecedence ==
    [][bpc' = "sort_filters" =>
          /\ IsPermutation(builder.filter_set, builder'.filter_set)
          /\ \A i, j \in DOMAIN builder'.filter_set :
                i < j => FilterClass(builder'.filter_set[i])
                            <= FilterClass(builder'.filter_set[j])
          /\ builder.filter_set = ScenarioC_Added
                => builder'.filter_set = ScenarioC_Sorted
          /\ builder'.components = builder.components]_vars

\* sort_filters() has reordered the filters of scenario C.
C25_Witness ==
    /\ bpc = "sort_filters"
    /\ builder.filter_set = ScenarioC_Sorted
    /\ builder.components = <<0>>

\* The filters up to and including the first access or write filter.
RECURSIVE ThroughFirstAccess(_)
ThroughFirstAccess(v) ==
    IF v = << >> THEN << >>
    ELSE IF FilterClass(Head(v)) = 3 THEN <<Head(v)>>
    ELSE <<Head(v)>> \o ThroughFirstAccess(Tail(v))

\* C26: the query that make() returns keeps every filter of the sorted list
\* up to and including the first access or write filter.
C26_PruneKeepsFirstAccess ==
    query # None =>
        query[1].filter_set = ThroughFirstAccess(sort(builder.filter_set))

\* The set the iteration is driven from: the first of the shortest sets.
Driving == iter.ordered_components[min_by_key(iter.ordered_components) + 1]

InEverySet(key) ==
    \A c \in DOMAIN iter.ordered_components :
        contains(iter.ordered_components[c], key)

\* C27: a finished iteration of a query over several sets has yielded, in
\* the order of the driving set, one element for each of its entries that is
\* live in every set asked for, the entries behind an absent one included.
C27_IterationSkipsAbsent ==
    iter.pc = "done" =>
        iter.yielded = SelectSeq(Driving.dense, InEverySet)

\* The system the Ref was yielded to, as the world holds it.
Holder == get(world.systems, view.system_id)[1]

InList(v, x) == \E k \in DOMAIN v : v[k] = x

\* C28: a mutable view of a Ref<T> yielded to system S completes, and T's
\* handle is in the write set of S afterwards.
C28_DerefMutMarksWrite ==
    (view.pc # "none" /\ view.last = "deref_mut") =>
        /\ view.pc = "held"
        /\ InList(Holder.writes, view.component_id)

\* The batch of the batch list that holds system id.
BatchOf(id) ==
    CHOOSE b \in {world.system_tree[k] : k \in DOMAIN world.system_tree} :
        InList(b, id)

\* C29: after a promotion of a read to a write by system S and the next
\* resolve, S is declared with the promoted handle in its write set and
\* shares its batch with no system that reads or writes that handle.
C29_PromotionThenResolve ==
    (/\ view.pc # "none" /\ view.last = "deref_mut"
     /\ wpc = "idle" /\ resolved.op = "resolve" /\ resolved.res = "Ok")
        => /\ InList(Holder.writes, view.component_id)
           /\ \A k \in DOMAIN BatchOf(view.system_id) :
                 LET other == get(world.systems, BatchOf(view.system_id)[k])[1]
                 IN other.id # view.system_id
                       => /\ ~InList(other.writes, view.component_id)
                          /\ ~InList(other.reads, view.component_id)

\* C30: once rebuild() has run, for all distinct node keys a and b, b is in
\* edges(a) iff conflict_cmp(a, b); no node has an edge to itself; and no
\* other edge is left in any node.
C30_EdgeInvariant ==
    gpc # "open" =>
        LET kv == kv_pairs(graph.nodes) IN
        \A i \in DOMAIN kv :
            /\ \A j \in DOMAIN kv :
                  i # j => (kv[j][1] \in kv[i][2].edges
                               <=> conflict_cmp(kv[i][2], kv[j][2]))
            /\ kv[i][1] \notin kv[i][2].edges
            /\ kv[i][2].edges \subseteq {kv[j][1] : j \in DOMAIN kv}

\* rebuild() has run on three nodes, added an edge one way and none back.
C30_Witness ==
    /\ gpc = "rebuilt"
    /\ len(graph.nodes) = 3
    /\ LET kv == kv_pairs(graph.nodes) IN
       \E i, j \in DOMAIN kv :
           /\ kv[j][1] \in kv[i][2].edges
           /\ kv[i][1] \notin kv[j][2].edges

\* The positions of data whose node is still uncolored in graph g.
UncoloredAt(g) == {i \in DOMAIN g.nodes.data : g.nodes.data[i].color = UNCOLORED}

\* The distinct colors among the colored neighbours of the node at position i.
SaturationAt(g, i) ==
    Cardinality({get(g.nodes, e)[1].color : e \in
        {e \in g.nodes.data[i].edges : get(g.nodes, e)[1].color # UNCOLORED}})

\* The neighbours of the node at position i that are still uncolored.
UncoloredNeighboursAt(g, i) ==
    Cardinality({e \in g.nodes.data[i].edges : get(g.nodes, e)[1].color = UNCOLORED})

\* C31: the node a pass of color() colors has, among the uncolored nodes,
\* the most distinct colors among its colored neighbours and, among those
\* tied with it, the most uncolored neighbours.
C31_MaxSaturationSelection ==
    [][(gpc = "coloring" /\ gpc' = "coloring" /\ graph' # graph) =>
         \A i \in UncoloredAt(graph) :
            graph'.nodes.data[i].color # UNCOLORED =>
               \A j \in UncoloredAt(graph) :
                  \/ SaturationAt(graph, i) > SaturationAt(graph, j)
                  \/ /\ SaturationAt(graph, i) = SaturationAt(graph, j)
                     /\ UncoloredNeighboursAt(graph, i)
                           >= UncoloredNeighboursAt(graph, j)]_vars

\* The colors of the colored neighbours of the node at position i.
NeighbourColorsAt(g, i) ==
    {get(g.nodes, e)[1].color : e \in
        {e \in g.nodes.data[i].edges : get(g.nodes, e)[1].color # UNCOLORED}}

\* C32: the color a pass of color() gives a node is the smallest value that
\* none of its colored neighbours has; it is a new color, equal to the
\* number of colors used so far, only if every color in use is forbidden.
C32_SmallestFreeColor ==
    [][(gpc = "coloring" /\ gpc' = "coloring" /\ graph' # graph) =>
         \A i \in UncoloredAt(graph) :
            LET c == graph'.nodes.data[i].color IN
            c # UNCOLORED =>
               /\ c \notin NeighbourColorsAt(graph, i)
               /\ \A d \in 0..(c - 1) : d \in NeighbourColorsAt(graph, i)
               /\ IF c < Len(color_st.used_colors)
                  THEN color_st'.used_colors = color_st.used_colors
                  ELSE /\ c = Len(color_st.used_colors)
                       /\ color_st'.used_colors = Append(color_st.used_colors, c)]_vars

\* Three passes have used two colors: the third node took a color in use.
C32_Witness ==
    /\ gpc = "coloring"
    /\ color_st.passes = 3
    /\ color_st.used_colors = <<0, 1>>
    /\ \E i \in DOMAIN graph.nodes.data : graph.nodes.data[i].color = 1

\* C33: color() ends after exactly n passes on a graph of n inserted nodes:
\* the passes made and the nodes still uncolored always add up to n, every
\* pass colors exactly one node, which was uncolored, and leaves the others
\* as they were; the assert is not tripped, NodeDoesntExist is not returned,
\* and no node is UNCOLORED when the loop has ended.
C33_ColorTerminates ==
    /\ [](/\ gpc # "panic"
          /\ result.err # "NodeDoesntExist"
          /\ gpc = "coloring" =>
                /\ color_st.passes + color_st.uncolored_count = len(graph.nodes)
                /\ Cardinality(UncoloredAt(graph)) = color_st.uncolored_count
          /\ gpc \in {"checked", "done"} =>
                /\ UncoloredAt(graph) = {}
                /\ color_st.passes = len(graph.nodes))
    /\ [][(gpc = "coloring" /\ color_st'.passes # color_st.passes) =>
            /\ color_st'.passes = color_st.passes + 1
            /\ \E i \in UncoloredAt(graph) :
                  /\ graph'.nodes.data[i].color # UNCOLORED
                  /\ \A j \in DOMAIN graph.nodes.data :
                        j # i => graph'.nodes.data[j] = graph.nodes.data[j]]_vars

\* color() has ended after three passes on three nodes.
C33_Witness ==
    /\ gpc = "coloring"
    /\ len(graph.nodes) = 3
    /\ color_st.passes = 3
    /\ color_st.uncolored_count = 0

\* The color of the node that carries payload p.
ColorOfPayload(p) ==
    graph.nodes.data[CHOOSE i \in DOMAIN graph.nodes.data :
                        graph.nodes.data[i].udata = p].color

\* Payload h conflicts with a member of group g, in one argument order or the other.
ConflictsWithGroup(h, g) ==
    \E k \in DOMAIN result.groups[g] :
        \/ <<h, result.groups[g][k]>> \in cmp
        \/ <<result.groups[g][k], h>> \in cmp

\* C34 as stated: every group returned by cliques() is maximal: no node of
\* any other group could join it without a conflict with one of its members.
C34_GroupsMaximal ==
    (gpc = "done" /\ result.kind = "Ok") =>
        \A g, o \in DOMAIN result.groups :
            g # o => \A k \in DOMAIN result.groups[o] :
                        ConflictsWithGroup(result.groups[o][k], g)

\* C34 as amended: every group returned by cliques() is pairwise conflict
\* free, and it is maximal towards the groups of higher color: every node of
\* a group with a higher color conflicts, by its own conflict_cmp, with a
\* member of each group with a lower color.
C34_GroupsMaximalTowardsLater ==
    (gpc = "done" /\ result.kind = "Ok") =>
        /\ \A g \in DOMAIN result.groups :
              \A i, j \in DOMAIN result.groups[g] :
                  i # j => <<result.groups[g][i], result.groups[g][j]>> \notin cmp
        /\ \A g, o \in DOMAIN result.groups :
              ColorOfPayload(result.groups[g][1]) < ColorOfPayload(result.groups[o][1])
                 => \A k \in DOMAIN result.groups[o] :
                       \E m \in DOMAIN result.groups[g] :
                           <<result.groups[o][k], result.groups[g][m]>> \in cmp

\* cliques() has returned two groups, the later-colored one with two nodes.
C34_Witness ==
    /\ gpc = "done"
    /\ result.kind = "Ok"
    /\ Len(result.groups) = 2
    /\ \E o \in DOMAIN result.groups :
          /\ Len(result.groups[o]) = 2
          /\ ColorOfPayload(result.groups[o][1]) = 1

\* resolve_system_tree has run twice in a row on the same systems.
ResolvedTwice ==
    resolved.op = "resolve" /\ resolved.res = "Ok" /\ resolved.prev # None

\* C35 as stated: two runs of cliques() on equal graphs return the groups in
\* the same sequence, so the batch list is the same after both.
C35_GroupOrderDeterministic ==
    ResolvedTwice => world.system_tree = resolved.prev[1]

\* C35 as amended: two runs of cliques() on equal graphs return the same
\* groups, each with its members in the same order, in sequences that are
\* permutations of one another.
C35_GroupOrderPermuted ==
    ResolvedTwice => IsPermutation(world.system_tree, resolved.prev[1])

\* The second of two runs has returned the two batches in the other order.
C35_Witness ==
    /\ ResolvedTwice
    /\ Len(world.system_tree) = 2
    /\ world.system_tree[1] = resolved.prev[1][2]
    /\ world.system_tree[2] = resolved.prev[1][1]
    /\ world.system_tree[1] # world.system_tree[2]

\* The conflict predicate is symmetric.
SymmetricCmp == \A p \in cmp : <<p[2], p[1]>> \in cmp

\* color() has run to its end.
Colored == (gpc = "coloring" /\ color_st.uncolored_count = 0) \/ gpc \in {"checked", "done"}

\* C36: with a symmetric conflict predicate, after color() every node with
\* color c > 0 conflicts with a node of each color below c, the colors in
\* use are exactly 0..k-1, and the number of colors is at most 1 + the
\* largest number of conflicts of a single node.
C36_FirstFit ==
    (SymmetricCmp /\ Colored) =>
        LET data == graph.nodes.data
            k == Cardinality(ColorsOf(graph))
        IN /\ \A i \in DOMAIN data :
                 \A d \in 0..(data[i].color - 1) :
                     \E j \in DOMAIN data :
                         /\ data[j].color = d
                         /\ conflict_cmp(data[i], data[j])
           /\ ColorsOf(graph) = 0..(k - 1)
           /\ k = Len(color_st.used_colors)
           /\ \A i \in DOMAIN data :
                 \E j \in DOMAIN data :
                     data[i].color <= Cardinality(data[j].edges)

\* Three nodes under a symmetric predicate were colored with two colors.
C36_Witness ==
    /\ SymmetricCmp
    /\ Colored
    /\ len(graph.nodes) = 3
    /\ ColorsOf(graph) = {0, 1}
    /\ \E i \in DOMAIN graph.nodes.data : Cardinality(graph.nodes.data[i].edges) = 2

\* C37: after clear() the set is observably empty and reusable: len() is 0,
\* get(k) is nothing for every key, the data holds no item, dense and data
\* have the same length, and an insert_with(k, v) that follows makes get(k)
\* return v.
C37_ClearEmptiesSet ==
    last.op = "clear" =>
        /\ len(set) = 0
        /\ \A k \in Keys : get(set, k) = None
        /\ set.data = << >>
        /\ Len(set.dense) = Len(set.data)
        /\ \A k \in Keys, v \in Items :
              LET r == insert_with(set, k, v) IN
              ~r.hung => get(r.set, k) = Some(v)

\* C38: insert (auto key) never reaches its panic: the key chosen by
\* next_key is not live before the call, is live afterwards and mapped to the
\* inserted item, len grows by exactly 1, and no previously live key changes
\* its value.
C38_InsertNeverPanics ==
    [][last'.op = "insert" =>
         LET k == next_key(set) IN
         /\ pc' = "ready"
         /\ last'.key = k
         /\ ~contains(set, k)
         /\ get(set', k) = Some(last'.item)
         /\ len(set') = len(set) + 1
         /\ \A j \in 0..(capacity(set) - 1) :
               contains(set, j) => get(set', j) = get(set, j)]_vars

\* insert has reused the freed key 0 in a set that holds another live key.
C38_Witness ==
    /\ last.op = "insert"
    /\ pc = "ready"
    /\ last.key = 0
    /\ len(set) = 2
    /\ set.dense[2] = 0
    /\ get(set, 0) = Some(last.item)

NoDuplicates(v) == \A i, j \in DOMAIN v : v[i] = v[j] => i = j

ElementsOf(v) == {v[i] : i \in DOMAIN v}

ReadsOf(systems) ==
    UNION {ElementsOf(systems[i].reads) : i \in DOMAIN systems}

WritesOf(systems) ==
    UNION {ElementsOf(systems[i].writes) : i \in DOMAIN systems}

\* C39: a SystemGroup built from a list of systems has group_immutable equal
\* to the duplicate-free union of the systems' read handles and group_mutable
\* equal to the duplicate-free union of their write handles: no handle occurs
\* twice in either list, whatever the order of the contributions.
C39_GroupHandlesDeduplicated ==
    group.pc = "built" =>
        /\ ElementsOf(group.out.group_immutable) = ReadsOf(group.systems)
        /\ NoDuplicates(group.out.group_immutable)
        /\ ElementsOf(group.out.group_mutable) = WritesOf(group.systems)
        /\ NoDuplicates(group.out.group_mutable)

\* C40: every node inserted into a ConflictGraph has its color slot
\* initialized to the UNCOLORED sentinel and keeps it until color() assigns
\* it a color: between insert and the coloring step the color is UNCOLORED.
C40_InsertedNodesUncolored ==
    gpc \in {"open", "rebuilt"} =>
        \A i \in DOMAIN graph.nodes.data :
            graph.nodes.data[i].color = UNCOLORED

====
